---- MODULE Spec2Model ----
(***************************************************************************)
(* krrood entity query language: the Match/Select pattern compiler of      *)
(* entity_query_language/match.py, the quantifier front end of             *)
(* entity_query_language/entity.py, and the evaluation of the compiled     *)
(* expression over an explicit domain.                                     *)
(*                                                                         *)
(* entity.py still holds an older copy of Match; the model follows         *)
(* match.py.                                                               *)
(*                                                                         *)
(* symbolic.py (Variable, Attribute, Flatten, Comparator, Exists, Entity,  *)
(* SetOf, An, The) is not among the sources; its evaluation rules are      *)
(* taken from spec.md sections 3 and 4.3 and are marked as such below.     *)
(***************************************************************************)
EXTENDS Integers, Sequences, FiniteSets, TLC

VARIABLES
    query,       \* index of the pattern handed to the(...) / an(...)
    domain,      \* the explicit collection given to entity_matching
    pattern,     \* the Match tree as constructed: type_, kwargs and flags of every node
    matches,     \* mutable fields of every Match object of the pattern tree
    error,       \* exception raised by pattern resolution, or None
    expression,  \* Match.expression (cached_property): <<>> or <<descriptor>>
    accesses,    \* how many times Match.expression has been requested
    front_end,   \* the function the caller quantified the pattern with: "the" or "an"
    quantifier,  \* the ResultQuantifier built by the(...) / an(...), or None
    source_pos,  \* elements of `domain` already consumed by the filter iterator
    cache,       \* elements the Variable has materialised from its domain source
    cursor,      \* the running iteration of An.evaluate(): position and yielded results
    runs,        \* results of the iterations that ran to exhaustion, oldest first
    result,      \* outcome of the last The.evaluate()
    field_type,      \* the resolved type of the dataclass field being classified
    classified,      \* the properties read from its WrappedField: <<>> or <<record>>
    clazz,           \* the dataclass whose fields are wrapped
    wrapped_classes, \* ClassDiagram.wrapped_classes, in order
    sys_modules,     \* the classes bound in the namespaces of sys.modules, in order
    lru_cache,       \* names manually_search_for_class_name has already found
    wrapped_fields,  \* the WrappedField instances created, with what each has stored
    last_read,       \* outcome of the last read of a property
    reads,           \* number of property reads so far
    query_code,      \* the generated query handed to EQLQueryValidator.validate
    validation,      \* what validate did with it: <<>> or <<outcome>>
    fields,              \* WrappedClass.fields of the class a WrappedOntology wraps
    mapped_classes,      \* ORMatic.mapped_classes
    datatype_properties, \* WrappedOntology.datatype_properties
    object_properties,   \* WrappedOntology.object_properties
    parsed,              \* whether parse_fields has run
    calls            \* the calls made on a conversion service or on a provider, the
                     \* constructor first: how each ended and the object as it left it

eql_vars == <<query, domain, pattern, matches, error, expression, accesses, front_end,
              quantifier, source_pos, cache, cursor, runs, result>>

classify_vars == <<field_type, classified>>

diagram_vars == <<clazz, wrapped_classes, sys_modules, lru_cache, wrapped_fields, last_read,
                  reads>>

validator_vars == <<query_code, validation>>

ontology_vars == <<fields, mapped_classes, datatype_properties, object_properties, parsed>>

nlp_vars == <<calls>>

vars == <<eql_vars, classify_vars, diagram_vars, validator_vars, ontology_vars, nlp_vars>>

not_eql_vars == <<classify_vars, diagram_vars, validator_vars, ontology_vars, nlp_vars>>

not_classify_vars == <<eql_vars, diagram_vars, validator_vars, ontology_vars, nlp_vars>>

not_diagram_vars == <<eql_vars, classify_vars, validator_vars, ontology_vars, nlp_vars>>

not_validator_vars == <<eql_vars, classify_vars, diagram_vars, ontology_vars, nlp_vars>>

not_ontology_vars == <<eql_vars, classify_vars, diagram_vars, validator_vars, nlp_vars>>

not_nlp_vars == <<eql_vars, classify_vars, diagram_vars, validator_vars, ontology_vars>>

None == "None"

\* the parts of the state an execution of another component leaves alone
EqlIdle ==
    /\ query = 0 /\ domain = <<>> /\ pattern = None /\ matches = None /\ error = None
    /\ expression = <<>> /\ accesses = 0 /\ front_end = None /\ quantifier = <<>>
    /\ source_pos = 0 /\ cache = <<>> /\ cursor = None /\ runs = <<>> /\ result = <<>>

ClassifyIdle == field_type = None /\ classified = <<>>

DiagramIdle ==
    /\ clazz = None /\ wrapped_classes = <<>> /\ sys_modules = <<>> /\ lru_cache = None
    /\ wrapped_fields = <<>> /\ last_read = None /\ reads = 0

ValidatorIdle == query_code = <<>> /\ validation = <<>>

OntologyIdle ==
    /\ fields = <<>> /\ mapped_classes = {} /\ datatype_properties = <<>>
    /\ object_properties = <<>> /\ parsed = FALSE

NlpIdle == calls = <<>>

\* ------------------------------------------------------------------ bounds

MaxDomain == 3
MaxRuns == 2
MaxAccesses == 2

\* ------------------------------------------------------------------ values

\* A Python value handed to or read by the engine: an object or string (scalar)
\* or a list of objects.
Sc(s) == [list |-> FALSE, s |-> s, l |-> <<>>]
Li(q) == [list |-> TRUE, s |-> "", l |-> q]

SeqToSet(q) == {q[i] : i \in DOMAIN q}

\* ------------------------------------------------------------------ records
\* The record classes of test/dataset/semantic_world_like_classes as the tests
\* use them.

SuperClass(t) ==
    CASE t = "Container" -> "Body"
      [] t = "Handle" -> "Body"
      [] t = "Drawer" -> "View"
      [] t = "Cabinet" -> "View"
      [] OTHER -> "object"

\* issubclass(a, b)
issubclass(a, b) == a = b \/ SuperClass(a) = b \/ b = "object"

Obj(type_, name, parent, child, handle, container, drawers) ==
    [type_ |-> type_, name |-> name, parent |-> parent, child |-> child,
     handle |-> handle, container |-> container, drawers |-> drawers]

Heap ==
    [o \in {"c1", "h1", "hx", "cx", "fc1", "fc2", "fc3", "fc5",
            "dm", "d1", "d2", "cabA", "cabB", "cabC", "cabD", "cabE"} |->
        CASE o = "c1" -> Obj("Container", "Container1", None, None, None, None, <<>>)
          [] o = "h1" -> Obj("Handle", "Handle1", None, None, None, None, <<>>)
          [] o = "hx" -> Obj("Handle", "Container1", None, None, None, None, <<>>)
          [] o = "cx" -> Obj("Container", "Handle1", None, None, None, None, <<>>)
          [] o = "fc1" -> Obj("FixedConnection", None, "c1", "h1", None, None, <<>>)
          [] o = "fc2" -> Obj("FixedConnection", None, "hx", "h1", None, None, <<>>)
          [] o = "fc3" -> Obj("FixedConnection", None, "c1", "cx", None, None, <<>>)
          [] o = "fc5" -> Obj("FixedConnection", None, "c1", "hx", None, None, <<>>)
          [] o = "dm" -> Obj("Drawer", None, None, None, "hx", "c1", <<>>)
          [] o = "d1" -> Obj("Drawer", None, None, None, "h1", "c1", <<>>)
          [] o = "d2" -> Obj("Drawer", None, None, None, "hx", "cx", <<>>)
          [] o = "cabA" -> Obj("Cabinet", None, None, None, None, "cx", <<"dm", "d1">>)
          [] o = "cabB" -> Obj("Cabinet", None, None, None, None, "cx", <<"dm">>)
          [] o = "cabC" -> Obj("Cabinet", None, None, None, None, "c1", <<"d1">>)
          [] o = "cabD" -> Obj("Cabinet", None, None, None, None, "c1", <<>>)
          [] o = "cabE" -> Obj("Cabinet", None, None, None, None, "cx", <<"dm", "d2", "dm">>)]

\* isinstance(o, t)
isinstance(o, t) == o \in DOMAIN Heap /\ issubclass(Heap[o].type_, t)

\* getattr(o, f) on a record; None when the object has no such attribute.
GetAttr(o, f) ==
    IF o \notin DOMAIN Heap \/ f \notin {"name", "parent", "child", "handle", "container", "drawers"}
    THEN Sc(None)
    ELSE IF f = "drawers" THEN Li(Heap[o][f])
    ELSE Sc(Heap[o][f])

\* The field descriptor behind an attribute access: its type endpoint and
\* whether it is iterable; None when the class declares no such field.
NoField == [type_endpoint |-> None, is_iterable |-> FALSE]

WrappedField(t, f) ==
    CASE f = "name" /\ issubclass(t, "Body") ->
            [type_endpoint |-> "str", is_iterable |-> FALSE]
      [] f \in {"parent", "child"} /\ t = "FixedConnection" ->
            [type_endpoint |-> "Body", is_iterable |-> FALSE]
      [] f = "handle" /\ t = "Drawer" ->
            [type_endpoint |-> "Handle", is_iterable |-> FALSE]
      [] f = "container" /\ t \in {"Drawer", "Cabinet"} ->
            [type_endpoint |-> "Container", is_iterable |-> FALSE]
      [] f = "drawers" /\ t = "Cabinet" ->
            [type_endpoint |-> "Drawer", is_iterable |-> TRUE]
      [] f = "views" /\ t = "World" ->
            [type_endpoint |-> "View", is_iterable |-> TRUE]
      [] OTHER -> NoField

\* ------------------------------------------------------------------ expression nodes
\* A node that can behave like a variable is written as its access path from
\* the root Variable: <<type>> is Variable(type), Append(p, f) is
\* Attribute(p, f) and Append(p, "*") is Flatten(p).  Literal(v) wraps a value.

\* Every node carries what the engine asks of it: its _type_, whether it
\* _is_iterable_, and for an Attribute whether a field descriptor backs it
\* (_wrapped_field_).
NewNode(lit, path, val, type_, is_iterable, has_field) ==
    [lit |-> lit, path |-> path, val |-> val, type_ |-> type_,
     is_iterable |-> is_iterable, has_field |-> has_field, child |-> <<>>]

NoVar == NewNode(FALSE, <<>>, Sc(None), None, FALSE, FALSE)
Variable(type_) == NewNode(FALSE, <<type_>>, Sc(None), type_, FALSE, FALSE)
Attribute(v, f) ==
    LET wrapped_field == WrappedField(v.type_, f)
    IN NewNode(FALSE, Append(v.path, f), Sc(None), wrapped_field.type_endpoint,
               wrapped_field.is_iterable, wrapped_field # NoField)
Flatten(v) ==
    [NewNode(FALSE, Append(v.path, "*"), Sc(None), v.type_, FALSE, FALSE)
        EXCEPT !.child = <<v>>]
Literal(v) == NewNode(TRUE, <<>>, v, None, v.list, FALSE)

IsFlatten(v) == v.child # <<>>

\* Flatten._child_: the attribute a Flatten unnests
FlattenChild(v) == v.child[1]

NodeType(v) == v.type_
NodeIsIterable(v) == v.is_iterable

Comparator(left, right, op) ==
    [k |-> "Comparator", left |-> left, right |-> right, op |-> op]
HasType(v, t) == [k |-> "HasType", var |-> v, type_ |-> t]
Exists(v, cond) == [k |-> "Exists", var |-> v, cond |-> cond]

AND(children) == [k |-> "AND", children |-> children]
OR(children) == [k |-> "OR", children |-> children]
Entity(selected_variables, child) ==
    [k |-> "Entity", selected_variables |-> selected_variables, child |-> child]
SetOf(selected_variables, child) ==
    [k |-> "SetOf", selected_variables |-> selected_variables, child |-> child]

\* ------------------------------------------------------------------ entity.py

\* and_(*conditions): the conjunction of the conditions, in order.
and_(conditions) == AND(conditions)

\* or_(*conditions): the disjunction of the conditions, in order.
or_(conditions) == OR(conditions)

\* in_(item, container): Comparator(container, item, operator.contains)
in_(item, container) == Comparator(container, item, "contains")

\* contains(container, item)
contains(container, item) == in_(item, container)

\* flatten(var) handing back a node that evaluates like var itself
flatten_without_unnest(var) == [var EXCEPT !.child = <<var>>]

\* flatten(var)
flatten(var) == Flatten(var)

\* exists(variable, condition)
exists(variable, condition) == Exists(variable, condition)

\* The expression of a descriptor: <<>> (None) without conditions, the condition
\* itself when there is one, their conjunction otherwise.
_extract_variables_and_expression(selected_variables, properties) ==
    [selected_variables |-> selected_variables,
     expression |-> IF Len(properties) > 0
                    THEN <<IF Len(properties) > 1 THEN and_(properties)
                           ELSE properties[1]>>
                    ELSE <<>>]

entity(selected_variable, properties) ==
    LET ve == _extract_variables_and_expression(<<selected_variable>>, properties)
    IN Entity(ve.selected_variables, ve.expression)

set_of(selected_variables, properties) ==
    LET ve == _extract_variables_and_expression(selected_variables, properties)
    IN SetOf(ve.selected_variables, ve.expression)

\* the domain handed to From(...) as it came in
domain_source_unfiltered(dom, type_) == dom

\* the test of the filter inverted
domain_source_of_other_types(dom, type_) == SelectSeq(dom, LAMBDA x : ~isinstance(x, type_))

\* filter(lambda x: isinstance(x, type_), domain), as the elements it lets through
_get_domain_source_from_domain_and_type_values(dom, type_) ==
    SelectSeq(dom, LAMBDA x : isinstance(x, type_))

\* let(type_, domain): the Variable; its domain source is the filter above
let(type_, dom) == Variable(type_)

\* ------------------------------------------------------------------ match.py: construction

\* The argument of match(...) / select(...): a class, or a value that is no class.
TypeArg(t) == [is_type |-> TRUE, t |-> t, v |-> Sc(None)]
ValueArg(v) == [is_type |-> FALSE, t |-> None, v |-> v]

\* A field constraint: a plain value or a nested pattern.
LiteralValue(v) == [is_match |-> FALSE, lit |-> v, m |-> None]
MatchValue(m) == [is_match |-> TRUE, lit |-> Sc(None), m |-> m]
KW(name, value) == [name |-> name, value |-> value]

NewMatch(cls, type_, variable, is_selected) ==
    [cls |-> cls, type_ |-> type_, variable |-> variable, kwargs |-> <<>>,
     is_selected |-> is_selected, existential |-> FALSE, universal |-> FALSE,
     domain |-> <<>>]

\* A value that is no class becomes a pattern already bound to Literal(value);
\* its type_ field holds the value itself and is never read as a class.
_match_or_select(match_type, arg) ==
    IF ~arg.is_type
    THEN NewMatch(match_type, "literal", Literal(arg.v), match_type = "Select")
    ELSE NewMatch(match_type, arg.t, NoVar, match_type = "Select")

match(arg) == _match_or_select("Match", arg)
match_any(arg) == [match(arg) EXCEPT !.existential = TRUE]
match_all(arg) == [match(arg) EXCEPT !.universal = TRUE]
select(arg) == _match_or_select("Select", arg)

entity_matching(type_, dom) ==
    [NewMatch("MatchEntity", type_, NoVar, FALSE) EXCEPT !.domain = dom]

\* Match.__call__(**kwargs)
Call(m, kwargs) == [m EXCEPT !.kwargs = kwargs]

\* ------------------------------------------------------------------ the patterns under test

\* The patterns the caller may build over a collection `dom`.
Queries(dom) ==
    << \* 1: test_match
       Call(entity_matching("FixedConnection", dom),
            <<KW("parent", MatchValue(Call(match(TypeArg("Container")),
                    <<KW("name", LiteralValue(Sc("Container1")))>>))),
              KW("child", MatchValue(Call(match(TypeArg("Handle")),
                    <<KW("name", LiteralValue(Sc("Handle1")))>>)))>>),
       \* 2: test_select
       Call(entity_matching("FixedConnection", dom),
            <<KW("parent", MatchValue(Call(select(TypeArg("Container")),
                    <<KW("name", LiteralValue(Sc("Container1")))>>))),
              KW("child", MatchValue(Call(select(TypeArg("Handle")),
                    <<KW("name", LiteralValue(Sc("Handle1")))>>)))>>),
       \* 3: one nested select
       Call(entity_matching("FixedConnection", dom),
            <<KW("parent", MatchValue(Call(select(TypeArg("Container")),
                    <<KW("name", LiteralValue(Sc("Container1")))>>)))>>),
       \* 4: a field the class does not declare
       Call(entity_matching("FixedConnection", dom),
            <<KW("owner", LiteralValue(Sc("c1"))),
              KW("child", MatchValue(match(TypeArg("Handle"))))>>),
       \* 5: no constraint at all
       entity_matching("Cabinet", dom),
       \* 6: test_match_any: drawers constrained contains-any against [dm]
       Call(entity_matching("Cabinet", dom),
            <<KW("drawers", MatchValue(match_any(ValueArg(Li(<<"dm">>)))))>>),
       \* 7: test_match_all: a plain list literal
       Call(entity_matching("Cabinet", dom),
            <<KW("drawers", LiteralValue(Li(<<"dm">>)))>>),
       \* 8: a list marked universal
       Call(entity_matching("Cabinet", dom),
            <<KW("drawers", MatchValue(match_all(ValueArg(Li(<<"dm">>)))))>>),
       \* 9: iterable attribute, scalar value
       Call(entity_matching("Cabinet", dom),
            <<KW("drawers", LiteralValue(Sc("dm")))>>),
       \* 10: scalar attribute, iterable value
       Call(entity_matching("Cabinet", dom),
            <<KW("container", LiteralValue(Li(<<"c1", "h1">>)))>>),
       \* 11: match_any(type) with nested constraints
       Call(entity_matching("Cabinet", dom),
            <<KW("drawers", MatchValue(Call(match_any(TypeArg("Drawer")),
                    <<KW("handle", LiteralValue(Sc("hx")))>>)))>>),
       \* 12: match_all(type) with nested constraints
       Call(entity_matching("Cabinet", dom),
            <<KW("drawers", MatchValue(Call(match_all(TypeArg("Drawer")),
                    <<KW("handle", LiteralValue(Sc("hx")))>>)))>>),
       \* 13: a select two levels down, under an unnested attribute
       Call(entity_matching("Cabinet", dom),
            <<KW("drawers", MatchValue(Call(match(TypeArg("Drawer")),
                    <<KW("handle", MatchValue(Call(select(TypeArg("Handle")),
                            <<KW("name", LiteralValue(Sc("Container1")))>>)))>>)))>>),
       \* 14: an undeclared field after a declared one
       Call(entity_matching("FixedConnection", dom),
            <<KW("child", MatchValue(Call(match(TypeArg("Handle")),
                    <<KW("name", LiteralValue(Sc("Handle1")))>>))),
              KW("owner", LiteralValue(Sc("c1")))>>)
    >>

NumQueries == Len(Queries(<<>>))

\* The collections a caller may pass: records of the queried class and foreign ones.
DomainElements(q) ==
    IF Queries(<<>>)[q].type_ = "FixedConnection"
    THEN {"fc1", "fc2", "fc3", "fc5", "cabB"}
    ELSE {"cabA", "cabB", "cabC", "cabD", "cabE", "fc1"}

RECURSIVE SeqsUpTo(_, _)
SeqsUpTo(S, n) ==
    IF n = 0 THEN {<<>>}
    ELSE LET shorter == SeqsUpTo(S, n - 1)
         IN shorter \cup {Append(q, x) : q \in {r \in shorter : Len(r) = n - 1}, x \in S}

\* The pattern at a node of the tree; a node is named by the kwargs positions
\* leading to it.
RECURSIVE Sub(_, _)
Sub(p, n) == IF n = <<>> THEN p ELSE Sub(p.kwargs[Head(n)].value.m, Tail(n))

Node(n) == Sub(pattern, n)

RECURSIVE NodesOf(_)
NodesOf(p) ==
    {<<>>} \cup UNION {{<<i>> \o n : n \in NodesOf(p.kwargs[i].value.m)} :
                        i \in {j \in DOMAIN p.kwargs : p.kwargs[j].value.is_match}}

\* The mutable fields of a freshly constructed Match.
NewMatchState(p) ==
    [type_ |-> p.type_, variable |-> p.variable, conditions |-> <<>>,
     selected_variables |-> <<>>, parent |-> <<>>, var_ |-> NoVar]

InitialMatches(p) == [n \in NodesOf(p) |-> NewMatchState(Sub(p, n))]

\* ------------------------------------------------------------------ match.py: resolution
\* The operators below thread h, the mutable fields of all Match objects of the
\* tree, and S = [m |-> h, error |-> exception or None].  A field constraint is
\* passed as av = [is_match, lit, key]: a plain value, or the node of a nested
\* pattern.

Assigned(n, i) ==
    LET value == Node(n).kwargs[i].value
    IN [is_match |-> value.is_match, lit |-> value.lit, key |-> n \o <<i>>]

IsSelect(av) == av.is_match /\ Node(av.key).cls = "Select"

\* Match._get_or_create_variable / MatchEntity._get_or_create_variable
_get_or_create_variable(h, n) ==
    IF Node(n).cls = "MatchEntity" THEN let(h[n].type_, Node(n).domain)
    ELSE IF h[n].variable # NoVar THEN h[n].variable
    ELSE let(h[n].type_, <<>>)

RECURSIVE _update_selected_variables(_, _, _)
\* Match._update_selected_variables
_update_selected_variables(h, n, variable) ==
    IF h[n].parent # <<>>
    THEN _update_selected_variables(h, h[n].parent[1], variable)
    ELSE [h EXCEPT ![n].selected_variables = Append(@, variable)]

\* the parent of an earlier resolution is kept when none is passed
match_fields_keep_the_parent(h, n, variable, parent) ==
    LET v == IF variable # NoVar THEN variable ELSE _get_or_create_variable(h, n)
        h1 == [h EXCEPT ![n].variable = v,
                        ![n].parent = IF parent # <<>> THEN parent ELSE @]
        h2 == IF Node(n).is_selected THEN _update_selected_variables(h1, n, v) ELSE h1
    IN [h2 EXCEPT ![n].type_ = IF @ = None THEN NodeType(v) ELSE @]

\* Match._update_the_match_fields
_update_the_match_fields(h, n, variable, parent) ==
    LET v == IF variable # NoVar THEN variable ELSE _get_or_create_variable(h, n)
        h1 == [h EXCEPT ![n].variable = v, ![n].parent = parent]
        h2 == IF Node(n).is_selected THEN _update_selected_variables(h1, n, v) ELSE h1
    IN [h2 EXCEPT ![n].type_ = IF @ = None THEN NodeType(v) ELSE @]

\* Select.update_selected_variable
update_selected_variable(h, n, variable) == [h EXCEPT ![n].var_ = variable]

\* Match._update_attribute_and_selected_variables: the heap and the attribute
_update_attribute_and_selected_variables(h, n, attr, av) ==
    LET a == IF NodeIsIterable(attr) THEN flatten(attr) ELSE attr
    IN [m |-> update_selected_variable(_update_selected_variables(h, n, a), av.key, a),
        attr |-> a]

\* Match.is_an_unresolved_match
is_an_unresolved_match(h, av) == av.is_match /\ h[av.key].variable = NoVar

\* every assigned value taken for a scalar
iterable_value_never(h, av) == FALSE

\* Match._is_iterable_value
_is_iterable_value(h, av) ==
    IF ~av.is_match THEN av.lit.list
    ELSE h[av.key].variable # NoVar /\ NodeIsIterable(h[av.key].variable)

\* Match._attribute_is_iterable_while_the_value_is_not
_attribute_is_iterable_while_the_value_is_not(h, av, attr) ==
    NodeIsIterable(attr) /\ ~_is_iterable_value(h, av)

\* Match._value_is_iterable_while_the_attribute_is_not
_value_is_iterable_while_the_attribute_is_not(h, av, attr) ==
    ~NodeIsIterable(attr) /\ _is_iterable_value(h, av)

\* Match._get_either_a_containment_or_an_equal_condition
_get_either_a_containment_or_an_equal_condition(h, attr, av) ==
    LET assigned_variable == IF av.is_match THEN h[av.key].variable ELSE Literal(av.lit)
        universal == av.is_match /\ Node(av.key).universal
    IN IF _attribute_is_iterable_while_the_value_is_not(h, av, attr)
       THEN contains(attr, assigned_variable)
       ELSE IF _value_is_iterable_while_the_attribute_is_not(h, av, attr)
       THEN in_(attr, assigned_variable)
       ELSE IF NodeIsIterable(attr) /\ _is_iterable_value(h, av) /\ ~universal
       THEN contains(assigned_variable,
                     IF ~IsFlatten(attr) THEN flatten(attr) ELSE attr)
       ELSE Comparator(attr, assigned_variable, "eq")

\* the existential flag not read
condition_unwrapped(attr, av, condition) == condition

\* Exists over the attribute as handed in, unnested or not
exists_over_the_attribute_as_given(attr, av, condition) ==
    IF av.is_match /\ Node(av.key).existential THEN exists(attr, condition) ELSE condition

\* Match._update_condition_if_existential
_update_condition_if_existential(attr, av, condition) ==
    IF av.is_match /\ Node(av.key).existential
    THEN exists(IF ~IsFlatten(attr) THEN attr ELSE FlattenChild(attr), condition)
    ELSE condition

\* Match._add_proper_conditions_for_an_already_resolved_child_match
_add_proper_conditions_for_an_already_resolved_child_match(h, n, attr, av) ==
    LET condition == _update_condition_if_existential(attr, av,
                        _get_either_a_containment_or_an_equal_condition(h, attr, av))
    IN [h EXCEPT ![n].conditions = Append(@, condition)]

\* no attribute ever given a type filter
type_filter_never_needed(attr, match_type) == FALSE

\* the identity test `is not` left out
type_filter_for_every_subclass(attr, match_type) ==
    NodeType(attr) = None \/ (match_type # None /\ issubclass(match_type, NodeType(attr)))

\* Match._is_type_filter_needed
_is_type_filter_needed(attr, match_type) ==
    LET attr_type == NodeType(attr)
    IN attr_type = None
       \/ (match_type # None /\ match_type # attr_type /\ issubclass(match_type, attr_type))

\* the HasType condition not appended
type_filter_dropped(h, n, attr, key) == h

\* Match._add_type_filter
_add_type_filter(h, n, attr, key) ==
    [h EXCEPT ![n].conditions = Append(@, HasType(attr, h[key].type_))]

RECURSIVE _resolve(_, _, _, _)
RECURSIVE ResolveKwargs(_, _, _)

\* self.conditions.extend(attr_assigned_value.conditions)
\* the conditions of the nested pattern stay with the nested pattern
conditions_not_merged(h, n, key) == h

ExtendConditions(h, n, key) == [h EXCEPT ![n].conditions = @ \o h[key].conditions]

\* Match._resolve_child_match_and_merge_conditions, once the child is resolved
\* into S1 with `a` as its variable: the type filter, then the child's conditions
MergeChild(S1, n, a, key, type_filter_needed) ==
    IF S1.error # None THEN S1
    ELSE [S1 EXCEPT !.m = ExtendConditions(
            IF type_filter_needed THEN _add_type_filter(S1.m, n, a, key) ELSE S1.m,
            n, key)]

\* Match._resolve_child_match_and_merge_conditions, the attribute unnested or not
ResolveChild(S, n, a, key, type_filter_needed) ==
    MergeChild(_resolve(S, key, a, <<n>>), n, a, key, type_filter_needed)

\* the attribute unnested for the constraints of the nested pattern only
flatten_for_constraints_only(attr, child_kwargs, type_filter_needed) ==
    NodeIsIterable(attr) /\ child_kwargs # <<>>

\* whether Match._resolve_child_match_and_merge_conditions unnests the attribute
NeedsFlatten(attr, child_kwargs, type_filter_needed) ==
    NodeIsIterable(attr) /\ (child_kwargs # <<>> \/ type_filter_needed)

\* Match._resolve_child_match_and_merge_conditions
_resolve_child_match_and_merge_conditions(S, n, attr, av) ==
    ResolveChild(S, n,
        IF NeedsFlatten(attr, Node(av.key).kwargs,
                        _is_type_filter_needed(attr, S.m[av.key].type_))
        THEN flatten(attr) ELSE attr,
        av.key, _is_type_filter_needed(attr, S.m[av.key].type_))

\* the two branches of the loop body of Match._resolve, u = [m, attr] being the
\* heap and the attribute Match._get_attribute_and_update_selected_variables left
ResolveValue(S, n, u, av) ==
    IF is_an_unresolved_match(u.m, av)
    THEN _resolve_child_match_and_merge_conditions([S EXCEPT !.m = u.m], n, u.attr, av)
    ELSE [S EXCEPT !.m = _add_proper_conditions_for_an_already_resolved_child_match(
                            u.m, n, u.attr, av)]

\* the attribute used whether or not a field descriptor backs it
attribute_unchecked(S, n, attr, av) ==
    ResolveValue(S, n,
        IF IsSelect(av)
        THEN _update_attribute_and_selected_variables(S.m, n, attr, av)
        ELSE [m |-> S.m, attr |-> attr],
        av)

\* Match._get_attribute_and_update_selected_variables for the attribute attr
_get_attribute_and_update_selected_variables(S, n, attr, av) ==
    IF ~attr.has_field THEN [S EXCEPT !.error = "NoneWrappedFieldError"]
    ELSE ResolveValue(S, n,
            IF IsSelect(av)
            THEN _update_attribute_and_selected_variables(S.m, n, attr, av)
            ELSE [m |-> S.m, attr |-> attr],
            av)

\* the loop body of Match._resolve for kwargs entry i
ResolveField(S, n, i) ==
    _get_attribute_and_update_selected_variables(
        S, n, Attribute(S.m[n].variable, Node(n).kwargs[i].name), Assigned(n, i))

\* the loop of Match._resolve over kwargs, from entry i on
ResolveKwargs(S, n, i) ==
    IF S.error # None \/ i > Len(Node(n).kwargs) THEN S
    ELSE ResolveKwargs(ResolveField(S, n, i), n, i + 1)

\* Select._resolve after super()._resolve(): _var_ defaults to the variable
SelectResolved(S1, n) ==
    IF S1.error = None /\ Node(n).cls = "Select" /\ S1.m[n].var_ = NoVar
    THEN [S1 EXCEPT !.m = update_selected_variable(S1.m, n, S1.m[n].variable)]
    ELSE S1

\* Match._resolve / Select._resolve
_resolve(S, n, variable, parent) ==
    SelectResolved(
        ResolveKwargs(
            [S EXCEPT !.m = _update_the_match_fields(S.m, n, variable, parent)], n, 1),
        n)

\* Match.expression: the root variable is selected when nothing else is
SelectRootByDefault(h) ==
    IF h[<<>>].selected_variables = <<>>
    THEN [h EXCEPT ![<<>>].selected_variables = <<h[<<>>].variable>>]
    ELSE h

\* Match.expression: entity(self.selected_variables[0], *self.conditions)
EntityOf(h) ==
    [m |-> h, error |-> None,
     expression |-> <<entity(h[<<>>].selected_variables[1], h[<<>>].conditions)>>]

\* the body of Match.expression after self._resolve() left S
BuildExpression(S) ==
    IF S.error # None THEN [m |-> S.m, error |-> S.error, expression |-> <<>>]
    ELSE IF Len(S.m[<<>>].selected_variables) > 1
    THEN [m |-> S.m, error |-> None,
          expression |-> <<set_of(S.m[<<>>].selected_variables, S.m[<<>>].conditions)>>]
    ELSE EntityOf(SelectRootByDefault(S.m))

\* Match.expression, first access: resolve, then build the descriptor.
\* [m, error, expression]; expression is <<>> when resolution raised.
ComputeExpression(h) ==
    BuildExpression(_resolve([m |-> h, error |-> None], <<>>, NoVar, <<>>))

\* ------------------------------------------------------------------ evaluation (spec.md 4.3)
\* A binding set maps variable-like nodes (paths) to the values bound to them.

RECURSIVE ConcatAll(_)
ConcatAll(qs) == IF qs = <<>> THEN <<>> ELSE Head(qs) \o ConcatAll(Tail(qs))

GetAttrOfValue(v, f) == IF v.list THEN Sc(None) ELSE GetAttr(v.s, f)

Map(q, F(_)) == [i \in DOMAIN q |-> F(q[i])]
FlatMap(q, F(_)) == ConcatAll(Map(q, F))

\* Flatten over one partial binding r = [b, v] whose value is the container:
\* one output binding per element, every existing binding kept.
FlattenBindings(p, r) ==
    IF r.v.list
    THEN Map(r.v.l, LAMBDA e : [b |-> r.b @@ (p :> Sc(e)), v |-> Sc(e)])
    ELSE <<>>

\* A Flatten or Attribute node over the values of its child
EvalPathStep(p, sub) ==
    IF p[Len(p)] = "*"
    THEN FlatMap(sub, LAMBDA r : FlattenBindings(p, r))
    ELSE Map(sub, LAMBDA r : [b |-> r.b, v |-> GetAttrOfValue(r.v, p[Len(p)])])

RECURSIVE EvalPath(_, _)
\* The values of a variable-like node under binding b, each with the binding
\* it was read under.
EvalPath(p, b) ==
    IF p \in DOMAIN b THEN <<[b |-> b, v |-> b[p]]>>
    ELSE EvalPathStep(p, EvalPath(SubSeq(p, 1, Len(p) - 1), b))

EvalNode(node, b) ==
    IF node.lit THEN <<[b |-> b, v |-> node.val]>> ELSE EvalPath(node.path, b)

\* operator.contains(left, right) and ==
ApplyOp(op, left, right) ==
    IF op = "contains"
    THEN left.list /\ ~right.list /\ right.s \in SeqToSet(left.l)
    ELSE left = right

EvalComparator(c, b) ==
    Map(SelectSeq(FlatMap(EvalNode(c.left, b),
                          LAMBDA l : Map(EvalNode(c.right, l.b),
                                         LAMBDA r : [b |-> r.b, l |-> l.v, r |-> r.v])),
                  LAMBDA x : ApplyOp(c.op, x.l, x.r)),
        LAMBDA x : x.b)

EvalHasType(c, b) ==
    Map(SelectSeq(EvalNode(c.var, b), LAMBDA x : ~x.v.list /\ isinstance(x.v.s, c.type_)),
        LAMBDA x : x.b)

\* OR handing on what every branch found, identical or not
every_branch_emits(bs) == bs

\* a sequence of binding sets without the repetitions of earlier ones
Distinct(bs) ==
    Map(SelectSeq([i \in DOMAIN bs |->
                      [b |-> bs[i], first |-> \A j \in 1..(i - 1) : bs[j] # bs[i]]],
                  LAMBDA x : x.first),
        LAMBDA x : x.b)

RECURSIVE EvalCondition(_, _)
RECURSIVE EvalConjunction(_, _)
\* The partial bindings that extend b and satisfy condition c, in search order.
EvalCondition(c, b) ==
    CASE c.k = "Comparator" -> EvalComparator(c, b)
      [] c.k = "HasType" -> EvalHasType(c, b)
      [] c.k = "Exists" -> IF EvalCondition(c.cond, b) # <<>> THEN <<b>> ELSE <<>>
      [] c.k = "AND" -> EvalConjunction(c.children, <<b>>)
      [] c.k = "OR" -> Distinct(FlatMap(c.children, LAMBDA branch : EvalCondition(branch, b)))

\* AND: the children in sequence, each over the bindings the previous ones left.
EvalConjunction(children, bs) ==
    IF children = <<>> \/ bs = <<>> THEN bs
    ELSE EvalConjunction(Tail(children),
                         FlatMap(bs, LAMBDA b : EvalCondition(Head(children), b)))

RECURSIVE BindSelected(_, _)
\* The bindings after reading every selected variable.
BindSelected(selected, bs) ==
    IF selected = <<>> THEN bs
    ELSE BindSelected(Tail(selected),
            FlatMap(bs, LAMBDA b : Map(EvalNode(Head(selected), b),
                                       LAMBDA r : r.b @@ (Head(selected).path :> r.v))))

\* One solution projected to the selected variables: the value for an Entity,
\* the UnificationDict for a SetOf.
Project(descriptor, b) ==
    IF descriptor.k = "Entity" THEN b[descriptor.selected_variables[1].path]
    ELSE [p \in {descriptor.selected_variables[i].path :
                    i \in DOMAIN descriptor.selected_variables} |-> b[p]]

\* The solution bindings a candidate value of the root variable contributes.
Bindings(descriptor, root, elem) ==
    IF descriptor.child = <<>> THEN <<(root.path :> Sc(elem))>>
    ELSE EvalCondition(descriptor.child[1], (root.path :> Sc(elem)))

\* The results a candidate value of the root variable contributes.
SolutionsOf(descriptor, root, elem) ==
    Map(BindSelected(descriptor.selected_variables, Bindings(descriptor, root, elem)),
        LAMBDA b : Project(descriptor, b))

\* ------------------------------------------------------------------ quantifiers

\* _quantify_entity, given the expression of the Match handed in.  Its
\* isinstance test names the Match class entity.py still defines; the patterns of
\* match.py are taken through the same branch.
_quantify_entity(quantifier_type, entity_) == [k |-> quantifier_type, child |-> entity_]

\* an(entity_)
an(entity_) == _quantify_entity("An", entity_)

\* the(...) building the An quantifier
the_returns_an(entity_) == _quantify_entity("An", entity_)

\* the(entity_)
the(entity_) == _quantify_entity("The", entity_)

RootVariable == matches[<<>>].variable
RootType == matches[<<>>].type_
Descriptor == expression[1]

\* The domain source is a one-pass filter over the collection: the next element
\* it lets through after `pos` elements have been consumed.
Passing(pos) ==
    {j \in (pos + 1)..Len(domain) :
        _get_domain_source_from_domain_and_type_values(<<domain[j]>>, RootType) # <<>>}

First(js) == CHOOSE x \in js : \A y \in js : x <= y

PullSource(pos) ==
    IF Passing(pos) = {} THEN [found |-> FALSE, pos |-> Len(domain), elem |-> None]
    ELSE [found |-> TRUE, pos |-> First(Passing(pos)), elem |-> domain[First(Passing(pos))]]

\* Everything the Variable can still offer: what it has materialised, then the
\* rest of the source.
FullDomain ==
    cache \o _get_domain_source_from_domain_and_type_values(
                SubSeq(domain, source_pos + 1, Len(domain)), RootType)

IdleCursor == [active |-> FALSE, idx |-> 0, pending |-> <<>>, out |-> <<>>]

\* the Variable draining its source on the first element it is handed
materialise_the_whole_source(c, next) ==
    IF next.found
    THEN [c EXCEPT !.pos = Len(domain),
                   !.cache = @ \o _get_domain_source_from_domain_and_type_values(
                                     SubSeq(domain, c.pos + 1, Len(domain)), RootType)]
    ELSE [c EXCEPT !.pos = next.pos, !.done = TRUE]

\* The Variable takes the element the source handed over, or learns that the
\* source is exhausted.
Materialise(c, next) ==
    IF next.found THEN [c EXCEPT !.pos = next.pos, !.cache = Append(@, next.elem)]
    ELSE [c EXCEPT !.pos = next.pos, !.done = TRUE]

RECURSIVE Advance(_)
\* One request for the next result: c = [pos, cache, idx, pending, out, done].
\* Candidates are read from the Variable's materialised elements first and
\* pulled from the source after that, until one contributes a solution.
Advance(c) ==
    IF c.done THEN c
    ELSE IF c.pending # <<>>
    THEN [c EXCEPT !.out = Append(@, Head(c.pending)), !.pending = Tail(@)]
    ELSE IF c.idx < Len(c.cache)
    THEN Advance([c EXCEPT !.idx = @ + 1,
                           !.pending = SolutionsOf(Descriptor, RootVariable,
                                                   c.cache[c.idx + 1])])
    ELSE Advance(Materialise(c, PullSource(c.pos)))

\* Every solution over the candidates `all`, in order.
AllSolutions(all) ==
    FlatMap(all, LAMBDA elem : SolutionsOf(Descriptor, RootVariable, elem))

\* The.evaluate(): the whole An sequence, then exactly one result or the error.
TheResult(solutions) ==
    IF Len(solutions) = 1 THEN [kind |-> "value", value |-> solutions[1]]
    ELSE [kind |-> "NotExactlyOneResultError", value |-> Sc(None)]

\* result.evaluate() of a quantifier over all its solutions
EvaluateQuantifier(q, solutions) ==
    IF q.k = "The" THEN TheResult(solutions)
    ELSE [kind |-> "sequence", value |-> solutions]

\* ------------------------------------------------------------------ the state machine

Init ==
    /\ query \in 1..NumQueries
    /\ domain \in SeqsUpTo(DomainElements(query), MaxDomain)
    /\ pattern = Queries(domain)[query]
    /\ matches = InitialMatches(pattern)
    /\ error = None
    /\ expression = <<>>
    /\ accesses = 0
    /\ front_end = None
    /\ quantifier = <<>>
    /\ source_pos = 0
    /\ cache = <<>>
    /\ cursor = IdleCursor
    /\ runs = <<>>
    /\ result = <<>>
    /\ ClassifyIdle
    /\ DiagramIdle
    /\ ValidatorIdle
    /\ OntologyIdle
    /\ NlpIdle

\* cached_property: the stored value when a request has returned one, the
\* function run again otherwise (an exception stores nothing).
CachedExpression(h, cached) ==
    IF cached # <<>> THEN [m |-> h, error |-> None, expression |-> cached]
    ELSE ComputeExpression(h)

\* the(pattern) or an(pattern): the pattern's expression is computed on first
\* access and the quantifier is built over it; an exception of resolution
\* leaves no quantifier.
Quantify(quantifier_type) ==
    /\ front_end = None
    /\ front_end' = IF quantifier_type = "The" THEN "the" ELSE "an"
    /\ accesses' = 1
    /\ \E r \in {CachedExpression(matches, expression)} :
          /\ matches' = r.m
          /\ error' = r.error
          /\ expression' = r.expression
          /\ quantifier' = IF r.error # None THEN <<>>
                           ELSE IF quantifier_type = "The" THEN <<the(r.expression[1])>>
                           ELSE <<an(r.expression[1])>>
    /\ UNCHANGED <<query, domain, pattern, source_pos, cache, cursor, runs, result>>
    /\ UNCHANGED not_eql_vars

\* pattern.expression requested once more on the same pattern, before the
\* quantifier built over it is evaluated
ExpressionAgain ==
    /\ front_end # None
    /\ accesses < MaxAccesses
    /\ source_pos = 0 /\ ~cursor.active /\ runs = <<>> /\ result = <<>>
    /\ accesses' = accesses + 1
    /\ \E r \in {CachedExpression(matches, expression)} :
          /\ matches' = r.m
          /\ error' = r.error
          /\ expression' = r.expression
    /\ UNCHANGED <<query, domain, pattern, front_end, quantifier, source_pos, cache,
                   cursor, runs, result>>
    /\ UNCHANGED not_eql_vars

\* .evaluate() on what the(...) returned
TheEvaluate ==
    /\ quantifier # <<>>
    /\ front_end = "the"
    /\ \E all \in {FullDomain} :
          /\ result' = <<EvaluateQuantifier(quantifier[1], AllSolutions(all))>>
          /\ cache' = all
          /\ source_pos' = Len(domain)
    /\ UNCHANGED <<query, domain, pattern, matches, error, expression, accesses, front_end,
                   quantifier, cursor, runs>>
    /\ UNCHANGED not_eql_vars

\* .evaluate() on what an(...) returned: a new iteration starts; nothing is
\* examined yet.  An iteration still running is simply dropped.
AnEvaluate ==
    /\ quantifier # <<>>
    /\ front_end = "an"
    /\ Len(runs) < MaxRuns
    /\ cursor' = [IdleCursor EXCEPT !.active = TRUE]
    /\ UNCHANGED <<query, domain, pattern, matches, error, expression, accesses, front_end, quantifier,
                   source_pos, cache, runs, result>>
    /\ UNCHANGED not_eql_vars

\* next(...) on the running iteration
AnNext ==
    /\ cursor.active
    /\ \E c \in {Advance([pos |-> source_pos, cache |-> cache, idx |-> cursor.idx,
                            pending |-> cursor.pending, out |-> cursor.out,
                            done |-> FALSE])} :
          /\ source_pos' = c.pos
          /\ cache' = c.cache
          /\ IF c.done
             THEN /\ runs' = Append(runs, c.out)
                  /\ cursor' = IdleCursor
             ELSE /\ runs' = runs
                  /\ cursor' = [active |-> TRUE, idx |-> c.idx,
                                pending |-> c.pending, out |-> c.out]
    /\ UNCHANGED <<query, domain, pattern, matches, error, expression, accesses, front_end,
                   quantifier, result>>
    /\ UNCHANGED not_eql_vars

Next ==
    \/ \E quantifier_type \in {"An", "The"} : Quantify(quantifier_type)
    \/ ExpressionAgain
    \/ TheEvaluate
    \/ AnEvaluate
    \/ AnNext

Spec == Init /\ [][Next]_vars

\* ------------------------------------------------------------------ properties

\* The collection as the Variable of the root pattern sees it: the instances of
\* the queried class, in the order of the collection.
TypedDomain == SelectSeq(domain, LAMBDA x : issubclass(Heap[x].type_, pattern.type_))

\* The elements of the collection that contribute at least one solution.
Satisfying ==
    SelectSeq(TypedDomain, LAMBDA e : SolutionsOf(Descriptor, RootVariable, e) # <<>>)

Resolved == expression # <<>>
TheEvaluated == front_end = "the" /\ result # <<>>

Count(q, P(_)) == Cardinality({j \in DOMAIN q : P(q[j])})

\* C1: evaluating the(...) returns the single solution when exactly one exists
\* and raises NotExactlyOneResultError when there are none or several; it never
\* returns a sequence.
C1_TheReturnsTheOneSolutionOrRaises ==
    TheEvaluated =>
        /\ result[1].kind \in {"value", "NotExactlyOneResultError"}
        /\ Len(AllSolutions(TypedDomain)) = 1 =>
                result[1] = [kind |-> "value", value |-> AllSolutions(TypedDomain)[1]]
        /\ Len(AllSolutions(TypedDomain)) # 1 =>
                result[1].kind = "NotExactlyOneResultError"

C1_Witness ==
    /\ TheEvaluated
    /\ result[1].kind = "value"
    /\ Len(TypedDomain) = 3
    /\ Len(domain) = 3

RECURSIVE VariablesOf(_)
\* The variable-like nodes a condition reads outside any Exists.
VariablesOf(c) ==
    CASE c.k = "Comparator" -> {c.left, c.right}
      [] c.k = "HasType" -> {c.var}
      [] c.k = "Exists" -> {}
      [] c.k = "AND" -> UNION {VariablesOf(c.children[i]) : i \in DOMAIN c.children}

\* Whether the descriptor unnests a container attribute into the solutions.
Unnesting ==
    \E v \in (IF Descriptor.child = <<>> THEN {} ELSE VariablesOf(Descriptor.child[1]))
              \cup SeqToSet(Descriptor.selected_variables) :
        \E i \in DOMAIN v.path : v.path[i] = "*"

FlattenNodes ==
    {v \in (IF Descriptor.child = <<>> THEN {} ELSE
                LET c == Descriptor.child[1]
                IN VariablesOf(c) \cup (IF c.k = "Exists" THEN VariablesOf(c.cond) ELSE {}))
            \cup SeqToSet(Descriptor.selected_variables) : IsFlatten(v)}

\* A partial binding of the root variable to elem, with one unrelated variable bound.
PartialBinding(elem) == (RootVariable.path :> Sc(elem)) @@ (<<"Handle">> :> Sc("h1"))

\* The container the child of a Flatten holds under a binding.
ContainerOf(f, b) == EvalNode(FlattenChild(f), b)[1].v.l

\* C3: for every partial binding in which the flattened attribute holds a
\* container of size k, Flatten emits exactly k bindings, one per element in
\* order, and every binding that was there before is unchanged in each of them.
C3_FlattenEmitsOneBindingPerElement ==
    Resolved =>
        \A f \in FlattenNodes : \A j \in DOMAIN TypedDomain :
            LET b == PartialBinding(TypedDomain[j])
                out == EvalNode(f, b)
            IN /\ Len(out) = Len(ContainerOf(f, b))
               /\ \A i \in DOMAIN out :
                    /\ out[i].v = Sc(ContainerOf(f, b)[i])
                    /\ \A key \in DOMAIN b : out[i].b[key] = b[key]

C3_Witness ==
    /\ Resolved
    /\ FlattenNodes # {}
    /\ \E j \in DOMAIN TypedDomain : Heap[TypedDomain[j]].drawers = <<>>
    /\ \E j \in DOMAIN TypedDomain : Len(Heap[TypedDomain[j]].drawers) = 3
    /\ runs # <<>>

\* The expression test_match builds by hand.
ManualEntity ==
    LET fc == let("FixedConnection", <<>>)
    IN entity(fc,
              <<HasType(Attribute(fc, "parent"), "Container"),
                HasType(Attribute(fc, "child"), "Handle"),
                Comparator(Attribute(Attribute(fc, "parent"), "name"),
                           Literal(Sc("Container1")), "eq"),
                Comparator(Attribute(Attribute(fc, "child"), "name"),
                           Literal(Sc("Handle1")), "eq")>>)

Conjuncts(descriptor) ==
    IF descriptor.child = <<>> THEN <<>>
    ELSE IF descriptor.child[1].k = "AND" THEN descriptor.child[1].children
    ELSE descriptor.child

BoundNodes ==
    {n \in NodesOf(pattern) :
        /\ Node(n).kwargs # <<>>
        /\ \A i \in DOMAIN Node(n).kwargs :
              \/ ~Node(n).kwargs[i].value.is_match
              \/ Sub(pattern, n \o <<i>>).variable # NoVar}

\* What is assigned to field i of node n, and whether it is iterable, existential, universal.
BoundValue(n, i) ==
    LET value == Node(n).kwargs[i].value
    IN IF value.is_match
       THEN [node |-> value.m.variable, iterable |-> value.m.variable.is_iterable,
             existential |-> value.m.existential, universal |-> value.m.universal]
       ELSE [node |-> Literal(value.lit), iterable |-> value.lit.list,
             existential |-> FALSE, universal |-> FALSE]

\* The condition the cardinality rule asks for.
ByCardinality(attr, iterable, value) ==
    IF iterable /\ ~value.iterable
    THEN [k |-> "Comparator", left |-> attr, right |-> value.node, op |-> "contains"]
    ELSE IF ~iterable /\ value.iterable
    THEN [k |-> "Comparator", left |-> value.node, right |-> attr, op |-> "contains"]
    ELSE IF iterable /\ value.iterable /\ ~value.universal
    THEN [k |-> "Comparator", left |-> value.node, right |-> Flatten(attr), op |-> "contains"]
    ELSE [k |-> "Comparator", left |-> attr, right |-> value.node, op |-> "eq"]

NestedConstraints(d) == Heap[d].type_ = "Drawer" /\ Heap[d].handle = "hx"

\* C6: a record satisfies a field constrained with match_any(type) iff at least
\* one element of its collection matches the nested constraints, and one
\* constrained with match_all(type) iff every element matches (stated for the
\* records whose collection is not empty).
C6_MatchAnyAndMatchAll ==
    (query \in {11, 12} /\ runs # <<>>) =>
        \A j \in {i \in DOMAIN TypedDomain : Heap[TypedDomain[i]].drawers # <<>>} :
            Sc(TypedDomain[j]) \in SeqToSet(runs[1]) <=>
                IF query = 11
                THEN \E d \in SeqToSet(Heap[TypedDomain[j]].drawers) : NestedConstraints(d)
                ELSE \A d \in SeqToSet(Heap[TypedDomain[j]].drawers) : NestedConstraints(d)

\* What pattern 1 asks of a connection.
FixedConnectionWanted(o) ==
    /\ Heap[o].type_ = "FixedConnection"
    /\ Heap[Heap[o].parent].type_ = "Container"
    /\ Heap[Heap[o].parent].name = "Container1"
    /\ Heap[Heap[o].child].type_ = "Handle"
    /\ Heap[Heap[o].child].name = "Handle1"

\* C7: over a collection holding the wanted connection among others, the
\* pattern of test_match under the(...) returns that connection and no other.
C7_TheWantedFixedConnection ==
    (query = 1 /\ TheEvaluated) =>
        IF Count(domain, FixedConnectionWanted) = 1
        THEN result[1] = [kind |-> "value", value |-> Sc("fc1")]
        ELSE result[1].kind = "NotExactlyOneResultError"

C7_Witness ==
    /\ query = 1
    /\ TheEvaluated
    /\ result[1] = [kind |-> "value", value |-> Sc("fc1")]
    /\ "fc2" \in SeqToSet(domain)
    /\ SeqToSet(domain) \cap {"fc3", "fc5"} # {}

\* C8: cabinets whose drawers are constrained contains-any against the drawer:
\* every cabinet of the collection whose list includes it, none whose list does
\* not, each once.
C8_ContainsAnyReturnsEachMatchingCabinetOnce ==
    (query = 6 /\ runs # <<>>) =>
        runs[1] = [j \in DOMAIN SelectSeq(TypedDomain,
                                LAMBDA c : "dm" \in SeqToSet(Heap[c].drawers)) |->
                      Sc(SelectSeq(TypedDomain,
                                   LAMBDA c : "dm" \in SeqToSet(Heap[c].drawers))[j])]

C8_Witness ==
    /\ query = 6
    /\ runs # <<>>
    /\ "cabE" \in SeqToSet(domain)
    /\ "cabC" \in SeqToSet(domain)
    /\ "cabA" \in SeqToSet(domain)
    /\ Len(runs[1]) = 2

\* C9: a plain collection literal assigned to a container field matches the
\* records whose container equals it as a whole; over cabinets with drawers
\* [d]+others, [d] and others, Cabinet(drawers=[d]) under the(...) returns the
\* cabinet whose drawers are exactly [d] and raises nothing.
C9_PlainListIsWholeEquality ==
    (query = 7 /\ TheEvaluated /\ domain = <<"cabA", "cabB", "cabC">>) =>
        result[1] = [kind |-> "value", value |-> Sc("cabB")]

\* The nodes of the pattern built with select.
SelectNodes == {n \in NodesOf(pattern) : Node(n).cls = "Select"}

\* C10: every select, at any depth, lands in the selected variables of the root
\* only, once each; the expression is a SetOf when more than one variable is
\* selected and an Entity otherwise, the root variable being selected when
\* nothing is marked.
C10_SelectionBubblesToTheRoot ==
    (Resolved /\ error = None) =>
        /\ \A n \in NodesOf(pattern) \ {<<>>} : matches[n].selected_variables = <<>>
        /\ matches[<<>>].selected_variables =
              IF SelectNodes = {} THEN <<matches[<<>>].variable>>
              ELSE matches[<<>>].selected_variables
        /\ \A n \in SelectNodes :
              Count(matches[<<>>].selected_variables, LAMBDA v : v = matches[n].var_) = 1
        /\ Descriptor.k = IF Cardinality(SelectNodes) > 1 THEN "SetOf" ELSE "Entity"

\* The fields the root pattern assigns although its class declares none of the name.
UndeclaredFields ==
    {pattern.kwargs[i].name : i \in {j \in DOMAIN pattern.kwargs :
        WrappedField(pattern.type_, pattern.kwargs[j].name) = NoField}}

\* C11: a pattern that assigns a field without a backing field descriptor fails
\* with NoneWrappedFieldError while it is compiled: no expression and no
\* quantifier come to exist, no element of the domain is ever examined, and no
\* condition on that field is appended.
C11_NoBackingFieldFailsBeforeAnyScan ==
    (accesses > 0 /\ UndeclaredFields # {}) =>
        /\ error = "NoneWrappedFieldError"
        /\ expression = <<>>
        /\ quantifier = <<>>
        /\ source_pos = 0 /\ cache = <<>>
        /\ runs = <<>> /\ result = <<>> /\ ~cursor.active
        /\ \A i \in DOMAIN matches[<<>>].conditions :
              \A v \in VariablesOf(matches[<<>>].conditions[i]) :
                  \A k \in DOMAIN v.path : v.path[k] \notin UndeclaredFields

C11_Witness ==
    /\ query = 14
    /\ accesses = 1
    /\ error = "NoneWrappedFieldError"
    /\ Len(matches[<<>>].conditions) = 2
    /\ Len(domain) = 3

\* C12: requesting the expression of a pattern again returns the cached
\* descriptor and leaves the conditions and the selected variables of every
\* pattern of the tree as the first request left them.
C12_ResolutionIsIdempotent ==
    [][(accesses >= 1 /\ accesses' > accesses) =>
            (expression' = expression /\ matches' = matches)]_vars

\* ======================================================================
\* class_diagrams/wrapped_field.py: classification of dataclass fields
\* ======================================================================

\* ------------------------------------------------------------------ bounds

MaxNesting == 2

\* ------------------------------------------------------------------ types
\* A type is a class, [origin |-> None, cls |-> c], or a parameterised alias
\* of typing, [origin |-> o, args |-> <<...>>]; get_origin and get_args read
\* the two parts as typing does (None and () for a class).

ClassType(c) == [origin |-> None, args |-> <<>>, cls |-> c]

Alias(o, a) == [origin |-> o, args |-> a, cls |-> None]

get_origin(t) == t.origin

get_args(t) == t.args

NoneType == ClassType("NoneType")

\* typing.Type without parameter: origin type, no arguments
Type == Alias("type", <<>>)

\* typing.List without parameter: origin list, no arguments
List == Alias("list", <<>>)

RECURSIVE Deduplicate(_)
Deduplicate(a) ==
    IF a = <<>> THEN <<>>
    ELSE LET rest == Deduplicate(SubSeq(a, 1, Len(a) - 1))
             x == a[Len(a)]
         IN IF x \in SeqToSet(rest) THEN rest ELSE Append(rest, x)

RECURSIVE FlattenUnions(_)
FlattenUnions(a) ==
    IF a = <<>> THEN <<>>
    ELSE (IF get_origin(Head(a)) = "Union" THEN get_args(Head(a)) ELSE <<Head(a)>>)
             \o FlattenUnions(Tail(a))

\* typing.Union[...]: nested unions are flattened, repeated arms dropped, and a
\* union of one arm is that arm.
Union(a) ==
    LET arms == Deduplicate(FlattenUnions(a))
    IN IF Len(arms) = 1 THEN arms[1] ELSE Alias("Union", arms)

\* typing.Optional[t] is Union[t, None]
Optional(t) == Union(<<t, NoneType>>)

Enums == {"a.Color"}

container_types == {"list", "set", "tuple", "type", "Sequence"}

BuiltinTypes == {ClassType(c) : c \in {"int", "float", "str", "bool", "datetime", "NoneType"}}

\* the outcome of reading a property: a value, or the exception it raised
Returns(v) == [raised |-> None, value |-> v]

Raises(e) == [raised |-> e, value |-> None]

\* ------------------------------------------------------------------ WrappedField
\* The properties below take the field's resolved type; resolved_type itself
\* (which needs the class diagram and the loaded modules) follows further down.

is_container(t) == get_origin(t) \in container_types

container_type(t) == IF ~is_container(t) THEN None ELSE get_origin(t)

any_union_is_optional(t) == get_origin(t) \in {"Union", "Optional"}

\* get_origin never returns typing.Optional, so only the Union branch decides
is_optional(t) ==
    IF get_origin(t) \notin {"Union", "Optional"} THEN FALSE
    ELSE IF get_origin(t) = "Union"
         THEN Len(get_args(t)) = 2 /\ NoneType \in SeqToSet(get_args(t))
         ELSE TRUE

contained_type(t) ==
    IF ~is_container(t) /\ ~is_optional(t) THEN Raises("ValueError")
    ELSE IF is_optional(t) THEN Returns(get_args(t)[1])
    ELSE IF Len(get_args(t)) > 0 THEN Returns(get_args(t)[1])
    ELSE IF t = Type THEN Returns(t)
    ELSE Raises("IndexError")

is_type_type(t) == get_origin(t) = "type"

IsEnumClass(t) == get_origin(t) = None /\ t.cls \in Enums

is_enum(t) ==
    IF is_container(t) THEN FALSE
    ELSE IF is_optional(t) THEN IsEnumClass(contained_type(t).value)
    ELSE IsEnumClass(t)

type_endpoint(t) ==
    IF is_container(t) \/ is_optional(t) THEN contained_type(t) ELSE Returns(t)

is_builtin_type(t) ==
    IF type_endpoint(t).raised # None THEN Raises(type_endpoint(t).raised)
    ELSE Returns(type_endpoint(t).value \in BuiltinTypes)

\* `not a and not b`: b is read only when a is False
is_one_to_one_relationship(t) ==
    IF is_container(t) THEN Returns(FALSE)
    ELSE IF is_builtin_type(t).raised # None THEN is_builtin_type(t)
    ELSE Returns(~is_builtin_type(t).value)

\* to-many read off the type endpoint alone, container or not
every_relationship_is_to_many(t) ==
    IF is_builtin_type(t).raised # None THEN is_builtin_type(t)
    ELSE IF is_builtin_type(t).value THEN Returns(FALSE)
    ELSE Returns(~is_optional(t))

\* `a and not b and not c`: b is read only when a is True
is_one_to_many_relationship(t) ==
    IF ~is_container(t) THEN Returns(FALSE)
    ELSE IF is_builtin_type(t).raised # None THEN is_builtin_type(t)
    ELSE IF is_builtin_type(t).value THEN Returns(FALSE)
    ELSE Returns(~is_optional(t))

\* dataclasses.MISSING
MISSING == "MISSING"

\* how a dataclass field can be declared: without default, with a default
\* value, with a default factory (never with both)
Defaults ==
    {[default |-> MISSING, default_factory |-> MISSING],
     [default |-> "value", default_factory |-> MISSING],
     [default |-> MISSING, default_factory |-> "factory"]}

\* `a and not b and c and d` over the declaration `declared` of the field
is_role_taker(t, declared) ==
    IF is_one_to_one_relationship(t).raised # None THEN is_one_to_one_relationship(t)
    ELSE Returns(/\ is_one_to_one_relationship(t).value
                 /\ ~is_optional(t)
                 /\ declared.default = MISSING
                 /\ declared.default_factory = MISSING)

\* every property of one WrappedField, read once
Classification(t) ==
    [resolved_type |-> t,
     is_container |-> is_container(t),
     container_type |-> container_type(t),
     is_optional |-> is_optional(t),
     contained_type |-> contained_type(t),
     is_type_type |-> is_type_type(t),
     is_enum |-> is_enum(t),
     type_endpoint |-> type_endpoint(t),
     is_builtin_type |-> is_builtin_type(t),
     is_one_to_one_relationship |-> is_one_to_one_relationship(t),
     is_one_to_many_relationship |-> is_one_to_many_relationship(t)]

\* ------------------------------------------------------------------ declared types
\* The annotations a dataclass field can carry, up to MaxNesting wrappers deep.

Classes == {ClassType(c) : c \in {"int", "str", "datetime", "a.Person", "a.Color"}}

Wrap(T) ==
    {Alias(o, <<t>>) : o \in container_types, t \in T}
        \cup {Alias("dict", <<ClassType("str"), t>>) : t \in T}
        \cup {Optional(t) : t \in T}
        \cup {Union(<<NoneType, t>>) : t \in T}
        \cup {Union(<<t, ClassType("str")>>) : t \in T}
        \cup {Union(<<t, ClassType("bool"), NoneType>>) : t \in T}

RECURSIVE FieldTypes(_)
FieldTypes(n) ==
    IF n = 0 THEN Classes \cup {NoneType, Type, List}
    ELSE FieldTypes(n - 1) \cup Wrap(FieldTypes(n - 1))

ClassifyInit ==
    /\ field_type \in FieldTypes(MaxNesting)
    /\ classified = <<>>
    /\ EqlIdle
    /\ DiagramIdle
    /\ ValidatorIdle
    /\ OntologyIdle
    /\ NlpIdle

\* a WrappedField over a field of this type is created and its properties read
Classify ==
    /\ classified = <<>>
    /\ \E declared \in Defaults :
          classified' = <<Classification(field_type)
                            @@ [field |-> declared,
                                is_role_taker |-> is_role_taker(field_type, declared)]>>
    /\ UNCHANGED field_type
    /\ UNCHANGED not_classify_vars

ClassifyNext == Classify

ClassifySpec == ClassifyInit /\ [][ClassifyNext]_vars

\* ------------------------------------------------------------------ forward references
\* Under `from __future__ import annotations` every annotation is a string that
\* get_type_hints evaluates: a ForwardRef stands for a class name the
\* evaluation has to look up.

MaxEvents == 6

ForwardRef(n) == [origin |-> "ForwardRef", args |-> <<>>, cls |-> n]

Names == {"Person", "Address", "Node", "Color"}

UserClasses == {"a.Person", "b.Person", "a.Address"}

__name__(c) ==
    CASE c \in {"a.Person", "b.Person"} -> "Person"
      [] c = "a.Address" -> "Address"
      [] c = "a.Node" -> "Node"
      [] c = "a.Color" -> "Color"
      [] c = "a.Position" -> "Position"
      [] c \in {"int", "float", "str", "bool", "datetime", "NoneType"} -> c
      [] c = "a.House" -> "House"
      [] c = "a.Team" -> "Team"
      [] c = "collections.abc.Sequence" -> "Sequence"
      [] c = "dataclasses.Field" -> "Field"
      [] c = "datetime.datetime" -> "datetime"
      [] c = "types.NoneType" -> "NoneType"
      [] c = "krrood.class_diagrams.wrapped_field.TypeResolutionError" -> "TypeResolutionError"
      [] c = "krrood.class_diagrams.wrapped_field.WrappedField" -> "WrappedField"

\* a namespace binds each name to a class, or to None when it has no binding
EmptyNamespace == [n \in Names |-> None]

\* The dataclasses that are wrapped: the class, the names its module binds at
\* run time, and its fields in declaration order.
House ==
    [clazz |-> "a.House",
     globals |-> EmptyNamespace,
     fields |-> <<[name |-> "owner", annotation |-> ForwardRef("Person")],
                  [name |-> "rooms", annotation |-> Alias("list", <<ClassType("int")>>)]>>]

Team ==
    [clazz |-> "a.Team",
     globals |-> EmptyNamespace,
     fields |-> <<[name |-> "lead", annotation |-> ForwardRef("Person")],
                  [name |-> "office", annotation |-> Optional(ForwardRef("Address"))]>>]

TreeNode ==
    [clazz |-> "a.Node",
     globals |-> [EmptyNamespace EXCEPT !["Node"] = "a.Node", !["Color"] = "a.Color"],
     fields |-> <<[name |-> "parent", annotation |-> Optional(ForwardRef("Node"))],
                  [name |-> "colour", annotation |-> ForwardRef("Color")]>>]

Declarations == {House, Team, TreeNode}

\* eval(...) of an annotation: the names it cannot look up, in evaluation order
RECURSIVE Unbound(_, _)
RECURSIVE UnboundIn(_, _)
Unbound(e, ns) ==
    IF get_origin(e) = "ForwardRef" THEN (IF ns[e.cls] = None THEN <<e.cls>> ELSE <<>>)
    ELSE UnboundIn(get_args(e), ns)

UnboundIn(a, ns) ==
    IF a = <<>> THEN <<>> ELSE Unbound(Head(a), ns) \o UnboundIn(Tail(a), ns)

\* eval(...) of an annotation whose names are all bound
RECURSIVE Evaluate(_, _)
RECURSIVE EvaluateAll(_, _)
Evaluate(e, ns) ==
    IF get_origin(e) = "ForwardRef" THEN ClassType(ns[e.cls])
    ELSE IF get_origin(e) = None THEN e
    ELSE IF get_origin(e) = "Union" THEN Union(EvaluateAll(get_args(e), ns))
    ELSE Alias(get_origin(e), EvaluateAll(get_args(e), ns))

EvaluateAll(a, ns) ==
    IF a = <<>> THEN <<>> ELSE <<Evaluate(Head(a), ns)>> \o EvaluateAll(Tail(a), ns)

AnnotationsOf(c) == [i \in DOMAIN c.fields |-> c.fields[i].annotation]

\* typing.get_type_hints(cls, localns=...): every annotation of the class is
\* evaluated, local names before the module's; the first name without binding
\* raises NameError.
get_type_hints(c, localns) ==
    LET ns == [n \in Names |-> IF localns[n] # None THEN localns[n] ELSE c.globals[n]]
        missing == UnboundIn(AnnotationsOf(c), ns)
    IN IF missing # <<>>
       THEN [raised |-> "NameError", name |-> missing[1], hints |-> <<>>]
       ELSE [raised |-> None, name |-> None, hints |-> EvaluateAll(AnnotationsOf(c), ns)]

\* classes the module wrapped_field.py itself binds
ModuleGlobals ==
    <<"collections.abc.Sequence", "dataclasses.Field", "datetime.datetime", "types.NoneType",
      "krrood.class_diagrams.wrapped_field.TypeResolutionError",
      "krrood.class_diagrams.wrapped_field.WrappedField">>

Named(classes, target_class_name) ==
    SelectSeq(classes, LAMBDA c : __name__(c) = target_class_name)

search_class_in_globals(target_class_name) == Named(ModuleGlobals, target_class_name)

search_class_in_sys_modules(modules, target_class_name) ==
    Deduplicate(Named(modules, target_class_name))

\* @lru_cache: a name that was found once is answered from the memo
manually_search_for_class_name(modules, memo, target_class_name) ==
    IF memo[target_class_name] # None
    THEN [raised |-> None, found |-> memo[target_class_name], warned |-> FALSE, memo |-> memo]
    ELSE LET found_classes == search_class_in_globals(target_class_name)
                                  \o search_class_in_sys_modules(modules, target_class_name)
         IN IF Len(found_classes) = 0
            THEN [raised |-> "TypeResolutionError", found |-> None, warned |-> FALSE,
                  memo |-> memo]
            ELSE [raised |-> None, found |-> found_classes[1],
                  warned |-> Len(found_classes) > 1,
                  memo |-> [memo EXCEPT ![target_class_name] = found_classes[1]]]

\* {cls.__name__: cls for cls in wrapped_classes}, then [name] = found_clazz:
\* of two diagram classes of one name the later one stays in the dict
RECURSIVE NamespaceOf(_)
NamespaceOf(diagram) ==
    IF diagram = <<>> THEN EmptyNamespace
    ELSE LET c == diagram[Len(diagram)]
             before == NamespaceOf(SubSeq(diagram, 1, Len(diagram) - 1))
         IN IF __name__(c) \in Names THEN [before EXCEPT ![__name__(c)] = c] ELSE before

local_namespace(diagram, name, found_clazz) ==
    [NamespaceOf(diagram) EXCEPT ![name] = found_clazz]

\* the except branch of resolved_type once found_clazz is known
ResolveWith(c, f, diagram, name, search) ==
    IF search.raised # None
    THEN [raised |-> search.raised, name |-> name, value |-> None, warned |-> FALSE,
          memo |-> search.memo]
    ELSE LET again == get_type_hints(c, local_namespace(diagram, name, search.found))
         IN IF again.raised # None
            THEN [raised |-> again.raised, name |-> again.name, value |-> None,
                  warned |-> search.warned, memo |-> search.memo]
            ELSE [raised |-> None, name |-> None, value |-> again.hints[f],
                  warned |-> search.warned, memo |-> search.memo]

FoundInDiagram(diagram, memo, name) ==
    [raised |-> None, found |-> Named(diagram, name)[1], warned |-> FALSE, memo |-> memo]

FindClass(diagram, modules, memo, name) ==
    IF Len(Named(diagram, name)) > 0 THEN FoundInDiagram(diagram, memo, name)
    ELSE manually_search_for_class_name(modules, memo, name)

\* WrappedField.resolved_type: the function under @cached_property
resolved_type(c, f, diagram, modules, memo) ==
    LET first == get_type_hints(c, EmptyNamespace)
    IN IF first.raised = None
       THEN [raised |-> None, name |-> None, value |-> first.hints[f], warned |-> FALSE,
             memo |-> memo]
       ELSE ResolveWith(c, f, diagram, first.name,
                        FindClass(diagram, modules, memo, first.name))

\* ------------------------------------------------------------------ cached properties

Properties ==
    {"resolved_type", "is_builtin_type", "is_container", "container_type", "is_optional",
     "contained_type", "is_type_type", "is_enum", "is_one_to_one_relationship",
     "is_one_to_many_relationship", "type_endpoint"}

\* what the function under each property returns or raises for a field whose
\* resolved type is t
ValueOf(a, t) ==
    CASE a = "resolved_type" -> Returns(t)
      [] a = "is_builtin_type" -> is_builtin_type(t)
      [] a = "is_container" -> Returns(is_container(t))
      [] a = "container_type" -> Returns(container_type(t))
      [] a = "is_optional" -> Returns(is_optional(t))
      [] a = "contained_type" -> contained_type(t)
      [] a = "is_type_type" -> Returns(is_type_type(t))
      [] a = "is_enum" -> Returns(is_enum(t))
      [] a = "is_one_to_one_relationship" -> is_one_to_one_relationship(t)
      [] a = "is_one_to_many_relationship" -> is_one_to_many_relationship(t)
      [] a = "type_endpoint" -> type_endpoint(t)

\* the other properties the function under a property reads, following its
\* short-circuits and early exits
ReadsOf(a, t) ==
    CASE a = "resolved_type" -> {}
      [] a = "is_builtin_type" -> {"type_endpoint"}
      [] a = "is_container" -> {"resolved_type"}
      [] a = "container_type" ->
            {"is_container"} \cup (IF is_container(t) THEN {"resolved_type"} ELSE {})
      [] a = "is_optional" -> {"resolved_type"}
      [] a = "contained_type" ->
            {"is_container", "is_optional"}
                \cup (IF is_container(t) \/ is_optional(t) THEN {"resolved_type"} ELSE {})
      [] a = "is_type_type" -> {"resolved_type"}
      [] a = "is_enum" ->
            IF is_container(t) THEN {"is_container"}
            ELSE IF is_optional(t) THEN {"is_container", "is_optional", "contained_type"}
            ELSE {"is_container", "is_optional", "resolved_type"}
      [] a = "is_one_to_one_relationship" ->
            IF is_container(t) THEN {"is_container"} ELSE {"is_container", "is_builtin_type"}
      [] a = "is_one_to_many_relationship" ->
            IF ~is_container(t) THEN {"is_container"}
            ELSE IF is_builtin_type(t).raised # None \/ is_builtin_type(t).value
                 THEN {"is_container", "is_builtin_type"}
                 ELSE {"is_container", "is_builtin_type", "is_optional"}
      [] a = "type_endpoint" ->
            IF is_container(t) THEN {"is_container", "contained_type"}
            ELSE IF is_optional(t) THEN {"is_container", "is_optional", "contained_type"}
            ELSE {"is_container", "is_optional", "resolved_type"}

never_cached(stored, a) == FALSE

\* functools.cached_property: the instance holds a value for the property
cached_property(stored, a) == a \in DOMAIN stored

\* the properties whose functions run when property a is read
RECURSIVE Ran(_, _, _)
Ran(a, stored, t) ==
    IF cached_property(stored, a) THEN {}
    ELSE {a} \cup UNION {Ran(d, stored, t) : d \in ReadsOf(a, t)}

\* the instance after that read: every function that ran and returned has
\* stored its value
Store(stored, a, t) ==
    LET returned == {x \in Ran(a, stored, t) : ValueOf(x, t).raised = None}
    IN [x \in DOMAIN stored \cup returned |->
            IF cached_property(stored, x) THEN stored[x] ELSE ValueOf(x, t).value]

NothingStored == [x \in {} |-> None]

WrappedFieldOf(c, f) ==
    [clazz |-> c.clazz, field |-> f, public_name |-> c.fields[f].name,
     stored |-> NothingStored]

__hash__(w) == <<w.clazz, w.field>>

__eq__(w, other) == <<w.clazz, w.field>> = <<other.clazz, other.field>>

\* self.resolved_type as the other properties read it
ResolvedTypeOf(w, c, diagram, modules, memo) ==
    IF cached_property(w.stored, "resolved_type")
    THEN [raised |-> None, name |-> None, value |-> w.stored["resolved_type"],
          warned |-> FALSE, memo |-> memo]
    ELSE resolved_type(c, w.field, diagram, modules, memo)

\* the properties a caller reads; the others are read by these
ReadableProperties ==
    {"resolved_type", "is_container", "is_optional", "is_enum", "is_one_to_one_relationship",
     "is_one_to_many_relationship", "type_endpoint"}

NoRead == [field |-> 0, property |-> None, hit |-> FALSE, raised |-> None, name |-> None,
           value |-> None, warned |-> FALSE]

\* imports, classes added to the diagram, fields wrapped and properties read so far
Events == Len(sys_modules) + (Len(wrapped_classes) - 1) + Len(wrapped_fields) + reads

FieldInit ==
    /\ clazz \in Declarations
    /\ wrapped_classes = <<clazz.clazz>>
    /\ sys_modules = <<>>
    /\ lru_cache = EmptyNamespace
    /\ wrapped_fields = <<>>
    /\ last_read = NoRead
    /\ reads = 0
    /\ EqlIdle
    /\ ClassifyIdle
    /\ ValidatorIdle
    /\ OntologyIdle
    /\ NlpIdle

\* the class diagram wraps one more class
AddWrappedClass(c) ==
    /\ Events < MaxEvents
    /\ c \notin SeqToSet(wrapped_classes)
    /\ wrapped_classes' = Append(wrapped_classes, c)
    /\ UNCHANGED <<clazz, sys_modules, lru_cache, wrapped_fields, last_read, reads>>
    /\ UNCHANGED not_diagram_vars

\* a module is imported: one more class is bound in a namespace of sys.modules
ImportModule(c) ==
    /\ Events < MaxEvents
    /\ sys_modules' = Append(sys_modules, c)
    /\ UNCHANGED <<clazz, wrapped_classes, lru_cache, wrapped_fields, last_read, reads>>
    /\ UNCHANGED not_diagram_vars

\* a field of the class is classified: WrappedField(clazz, field)
NewWrappedField(f) ==
    /\ Events < MaxEvents
    /\ wrapped_fields' = Append(wrapped_fields, WrappedFieldOf(clazz, f))
    /\ UNCHANGED <<clazz, wrapped_classes, sys_modules, lru_cache, last_read, reads>>
    /\ UNCHANGED not_diagram_vars

ReadStored(i, a) ==
    /\ last_read' = [field |-> i, property |-> a, hit |-> TRUE, raised |-> None,
                     name |-> None, value |-> wrapped_fields[i].stored[a], warned |-> FALSE]
    /\ UNCHANGED <<wrapped_fields, lru_cache>>

ReadComputed(i, a, r) ==
    /\ lru_cache' = r.memo
    /\ IF r.raised # None
       THEN /\ last_read' = [field |-> i, property |-> a, hit |-> FALSE, raised |-> r.raised,
                             name |-> r.name, value |-> None, warned |-> r.warned]
            /\ UNCHANGED wrapped_fields
       ELSE /\ last_read' = [field |-> i, property |-> a, hit |-> FALSE,
                             raised |-> ValueOf(a, r.value).raised, name |-> None,
                             value |-> ValueOf(a, r.value).value, warned |-> r.warned]
            /\ wrapped_fields' = [wrapped_fields EXCEPT
                                     ![i].stored = Store(wrapped_fields[i].stored, a, r.value)]

\* one property of one WrappedField is read
ReadProperty(i, a) ==
    /\ i \in DOMAIN wrapped_fields
    /\ Events < MaxEvents
    /\ reads' = reads + 1
    /\ IF cached_property(wrapped_fields[i].stored, a)
       THEN ReadStored(i, a)
       ELSE \E r \in {ResolvedTypeOf(wrapped_fields[i], clazz, wrapped_classes, sys_modules,
                                     lru_cache)} : ReadComputed(i, a, r)
    /\ UNCHANGED <<clazz, wrapped_classes, sys_modules>>
    /\ UNCHANGED not_diagram_vars

FieldNext ==
    \/ \E c \in UserClasses : AddWrappedClass(c)
    \/ \E c \in UserClasses : ImportModule(c)
    \/ \E f \in DOMAIN clazz.fields : NewWrappedField(f)
    \/ \E i \in DOMAIN wrapped_fields, a \in ReadableProperties : ReadProperty(i, a)

FieldSpec == FieldInit /\ [][FieldNext]_vars

\* ------------------------------------------------------------------ properties of the classification

SameField(i, j) ==
    /\ wrapped_fields[i].clazz = wrapped_fields[j].clazz
    /\ wrapped_fields[i].field = wrapped_fields[j].field

\* a step that reads property a of the i-th WrappedField
ReadStep(i, a) == reads' = reads + 1 /\ last_read'.field = i /\ last_read'.property = a

\* C13: two WrappedFields made for the same class and field are equal (and
\* hash alike) whatever each has stored, and once a property has returned a
\* value that value stays stored and is what every later read returns, also
\* after the class diagram or the loaded modules have changed.
C13_ClassificationIsIdempotent ==
    /\ [](\A i, j \in DOMAIN wrapped_fields :
              SameField(i, j) => /\ __eq__(wrapped_fields[i], wrapped_fields[j])
                                 /\ __hash__(wrapped_fields[i]) = __hash__(wrapped_fields[j]))
    /\ [][\A i \in DOMAIN wrapped_fields : \A a \in DOMAIN wrapped_fields[i].stored :
              /\ a \in DOMAIN wrapped_fields'[i].stored
              /\ wrapped_fields'[i].stored[a] = wrapped_fields[i].stored[a]
              /\ ReadStep(i, a) => /\ last_read'.raised = None
                                   /\ last_read'.value = wrapped_fields[i].stored[a]]_vars

\* two WrappedFields of one field, one of which has resolved its type and
\* answers a second read from what it stored, although resolving the type
\* anew would by now give another class
C13_Witness ==
    /\ Len(wrapped_fields) = 2
    /\ SameField(1, 2)
    /\ wrapped_fields[1].stored # wrapped_fields[2].stored
    /\ last_read.hit /\ last_read.property = "resolved_type"
    /\ resolved_type(clazz, wrapped_fields[last_read.field].field, wrapped_classes,
                     sys_modules, lru_cache).raised = None
    /\ resolved_type(clazz, wrapped_fields[last_read.field].field, wrapped_classes,
                     sys_modules, lru_cache).value # last_read.value

\* the names in the annotations of class c that its module does not bind
MissingNames(c) == SeqToSet(UnboundIn(AnnotationsOf(c), c.globals))

\* the classes of that name: those of the class diagram first, then those a
\* search of the loaded namespaces finds, each in order
Candidates(n) ==
    Named(wrapped_classes, n) \o search_class_in_globals(n) \o Named(sys_modules, n)

\* every name bound by the module or, failing that, to its first candidate
FirstCandidates ==
    [n \in Names |-> IF clazz.globals[n] # None THEN clazz.globals[n]
                     ELSE IF Candidates(n) # <<>> THEN Candidates(n)[1]
                     ELSE None]

\* a step in which the i-th WrappedField has to resolve its type
ResolvingStep(i) ==
    /\ reads' = reads + 1
    /\ last_read'.field = i
    /\ ~cached_property(wrapped_fields[i].stored, "resolved_type")

\* C14: whenever a WrappedField resolves its type, every forward-referenced
\* name of the class is bound to the first class of that name in the class
\* diagram or, when the diagram has none, to the first one a search of the
\* loaded namespaces finds (with a warning logged when the search finds
\* several); when some name has no candidate anywhere, the read raises
\* TypeResolutionError and stores no resolved type.
C14_ForwardReferencesAreResolvedOrFail ==
    [][\A i \in DOMAIN wrapped_fields : ResolvingStep(i) =>
          IF \E n \in MissingNames(clazz) : Candidates(n) = <<>>
          THEN /\ last_read'.raised = "TypeResolutionError"
               /\ wrapped_fields' = wrapped_fields
          ELSE /\ last_read'.raised = None
               /\ cached_property(wrapped_fields'[i].stored, "resolved_type")
               /\ wrapped_fields'[i].stored["resolved_type"] =
                      Evaluate(clazz.fields[wrapped_fields[i].field].annotation,
                               FirstCandidates)
               /\ (\E n \in MissingNames(clazz) :
                        /\ Named(wrapped_classes, n) = <<>>
                        /\ lru_cache[n] = None
                        /\ Len(search_class_in_sys_modules(sys_modules, n)) > 1)
                     => last_read'.warned]_vars

TwoArmedUnionWithNone(t) ==
    /\ get_origin(t) = "Union"
    /\ Len(get_args(t)) = 2
    /\ \E k \in 1..2 : get_args(t)[k] = NoneType

\* a relationship of either kind, as the two flags report it
IsRelationship(d) ==
    \/ d.is_one_to_one_relationship.raised = None /\ d.is_one_to_one_relationship.value
    \/ d.is_one_to_many_relationship.raised = None /\ d.is_one_to_many_relationship.value

StructuralWith(origins) ==
    \A k \in DOMAIN classified :
        /\ classified[k].is_container <=> get_origin(field_type) \in origins
        /\ classified[k].is_optional <=> TwoArmedUnionWithNone(field_type)
        /\ IsRelationship(classified[k]) <=>
               /\ classified[k].type_endpoint.raised = None
               /\ classified[k].type_endpoint.value \notin BuiltinTypes

\* C15 (as stated): a field is a container iff the origin of its resolved
\* type is list, set, tuple or type; optional iff the resolved type is a
\* two-armed union with NoneType among the arms; a relationship iff its type
\* (the type endpoint) is none of the builtin scalar kinds.
C15_ClassificationIsStructural == StructuralWith({"list", "set", "tuple", "type"})

\* C15 (amended): the same, with collections.abc.Sequence among the container
\* origins.
C15_ClassificationIsStructuralWithSequence ==
    StructuralWith({"list", "set", "tuple", "type", "Sequence"})

\* a field declared Sequence[Person] has been classified: a container and a
\* one-to-many relationship
C15_Witness ==
    /\ field_type = Alias("Sequence", <<ClassType("a.Person")>>)
    /\ classified # <<>>
    /\ classified[1].is_container
    /\ ~classified[1].is_optional
    /\ IsRelationship(classified[1])

\* the element type left when every container and optional wrapper is removed
RECURSIVE Innermost(_)
Innermost(t) ==
    IF get_origin(t) \in container_types /\ get_args(t) # <<>> THEN Innermost(get_args(t)[1])
    ELSE IF TwoArmedUnionWithNone(t)
         THEN Innermost(IF get_args(t)[1] = NoneType THEN get_args(t)[2] ELSE get_args(t)[1])
         ELSE t

\* C16: the type endpoint of a classified field is the innermost element type
\* of its declared type, every container and optional wrapper removed, and is
\* itself neither a container type nor an optional type.
C16_TypeEndpointIsInnermost ==
    \A k \in DOMAIN classified :
        classified[k].type_endpoint.raised = None =>
            /\ classified[k].type_endpoint.value = Innermost(field_type)
            /\ ~is_container(classified[k].type_endpoint.value)
            /\ ~is_optional(classified[k].type_endpoint.value)

\* ------------------------------------------------------------------ properties of the domain source

IsPrefix(p, q) == Len(p) <= Len(q) /\ p = SubSeq(q, 1, Len(p))

\* every result the quantifier has handed out so far
Yielded ==
    UNION {SeqToSet(runs[i]) : i \in DOMAIN runs}
        \cup (IF cursor.active THEN SeqToSet(cursor.out) ELSE {})
        \cup {result[i].value : i \in {j \in DOMAIN result : result[j].kind = "value"}}

\* C17: the candidates the root Variable has taken are exactly the instances of
\* its type among the elements of the collection consumed so far, in order; a
\* pattern that selects its root yields only such elements; the collection, and
\* the Variable once created, stay the same, the source only moves forward and
\* the candidates taken are kept.
C17_CandidatesAreTypedDomainElements ==
    /\ [](Resolved =>
            /\ \A i \in DOMAIN cache :
                  cache[i] \in SeqToSet(domain) /\ isinstance(cache[i], RootVariable.type_)
            /\ cache = SelectSeq(SubSeq(domain, 1, source_pos),
                                 LAMBDA x : isinstance(x, RootVariable.type_))
            /\ Descriptor.selected_variables = <<RootVariable>> =>
                  Yielded \subseteq {Sc(cache[i]) : i \in DOMAIN cache})
    /\ [][/\ domain' = domain
           /\ source_pos' >= source_pos
           /\ IsPrefix(cache, cache')
           /\ RootVariable # NoVar => matches'[<<>>].variable = RootVariable]_vars

\* a collection whose first element is no instance of the queried class, all of
\* it consumed by an iteration that yielded a later element
C17_Witness ==
    /\ Resolved
    /\ Len(domain) = 3
    /\ ~isinstance(domain[1], RootVariable.type_)
    /\ source_pos = 3
    /\ Len(cache) = 2
    /\ runs # <<>> /\ runs[1] # <<>>
    /\ Descriptor.selected_variables = <<RootVariable>>

\* ------------------------------------------------------------------ pull-based evaluation

Max(a, b) == IF a >= b THEN a ELSE b

FreshCursor == [IdleCursor EXCEPT !.active = TRUE]

\* a step in which the consumer's request is answered with a result
Delivers == cursor.active /\ cursor'.active /\ Len(cursor'.out) = Len(cursor.out) + 1

\* a step in which the consumer's request finds the iteration exhausted
Exhausts == cursor.active /\ ~cursor'.active /\ Len(runs') = Len(runs) + 1

\* a step in which the consumer turns from the running iteration to a new one
GivesUp == cursor.active /\ cursor.out # <<>> /\ cursor' = FreshCursor

SolutionsAt(i) == SolutionsOf(Descriptor, RootVariable, cache'[i])

\* C20: evaluation of an(...) is pull-based.  Building the quantifier and
\* starting an iteration examine no element of the domain: only a request for a
\* result does.  A request answered with a result examines candidates only up
\* to the one that yields it (none when solutions of the last candidate are
\* still pending), and a request that finds the iteration exhausted adds no
\* result.  Giving up a running iteration, after any number of results, leaves a
\* new iteration that starts from nothing, and every iteration that then runs
\* to the end yields all solutions.
C20_EvaluationIsPullBased ==
    /\ [](front_end # "the" =>
             /\ front_end = None => source_pos = 0 /\ cache = <<>>
             /\ Resolved =>
                    /\ \A i \in DOMAIN runs : runs[i] = AllSolutions(TypedDomain)
                    /\ cursor.active => IsPrefix(cursor.out, AllSolutions(TypedDomain)))
    /\ [][front_end' # "the" =>
             /\ (source_pos' # source_pos \/ cache' # cache) => (Delivers \/ Exhausts)
             /\ Delivers =>
                    /\ cursor.pending # <<>> =>
                           /\ cursor'.idx = cursor.idx
                           /\ source_pos' = source_pos /\ cache' = cache
                    /\ cursor.pending = <<>> =>
                           /\ cursor'.idx > cursor.idx
                           /\ SolutionsAt(cursor'.idx) # <<>>
                           /\ cursor'.out = Append(cursor.out, SolutionsAt(cursor'.idx)[1])
                    /\ \A i \in (cursor.idx + 1)..(cursor'.idx - 1) : SolutionsAt(i) = <<>>
                    /\ Len(cache') <= Max(Len(cache), cursor'.idx)
                    /\ source_pos' > source_pos => domain[source_pos'] = cache'[cursor'.idx]
                    /\ runs' = runs
             /\ Exhausts => runs' = Append(runs, cursor.out)
             /\ GivesUp =>
                    /\ source_pos' = source_pos /\ cache' = cache /\ runs' = runs
             /\ runs' # runs => Exhausts]_vars

\* No iteration has run to the end, yet the Variable holds three candidates
\* of which the second yields nothing: an iteration was given up after it had
\* reached the third, and the one started after it has so far been asked for
\* one result and has examined the first candidate only.
C20_Witness ==
    /\ front_end = "an"
    /\ runs = <<>>
    /\ cursor.active
    /\ Len(cursor.out) = 1
    /\ cursor.idx = 1
    /\ Len(cache) = 3
    /\ SolutionsOf(Descriptor, RootVariable, cache[2]) = <<>>

\* ======================================================================
\* nlp_to_eql/validators.py: EQLQueryValidator
\* ======================================================================

MaxLines == 3

\* The lines a generated query is made of.  Every line ends an expression
\* (with a comma) or opens a call, so the text compiles exactly when its
\* parentheses match; NUL stands for a line holding a null byte.
Lines == {"symbolic_mode,", "x,", "an(", "the(", "plan(", "(", "),", "NUL"}

Opening == {"an(", "the(", "plan(", "("}

\* `needle in query_code` for the three needles of validate, line by line
Contains(needle, code) ==
    \E i \in DOMAIN code :
        CASE needle = "symbolic_mode" -> code[i] = "symbolic_mode,"
          [] needle = "an(" -> code[i] \in {"an(", "plan("}
          [] needle = "the(" -> code[i] = "the("

RECURSIVE Scan(_, _)
\* the parser over the lines, with the number of parentheses still open
Scan(code, open) ==
    IF code = <<>> THEN (IF open > 0 THEN "'(' was never closed" ELSE None)
    ELSE IF Head(code) \in Opening THEN Scan(Tail(code), open + 1)
    ELSE IF Head(code) = "),"
         THEN (IF open = 0 THEN "unmatched ')'" ELSE Scan(Tail(code), open - 1))
    ELSE Scan(Tail(code), open)

\* compile(query_code, '<string>', 'exec'): the exceptions it can end with, or
\* {None}.  A null byte is rejected before parsing, with ValueError or with
\* SyntaxError depending on the interpreter.
compile(code) ==
    IF \E i \in DOMAIN code : code[i] = "NUL"
    THEN {[type |-> "ValueError", text |-> "source code string cannot contain null bytes"],
          [type |-> "SyntaxError", text |-> "source code string cannot contain null bytes"]}
    ELSE IF Scan(code, 0) # None THEN {[type |-> "SyntaxError", text |-> Scan(code, 0)]}
    ELSE {[type |-> None, text |-> None]}

\* models.ValidationResult; a message is the sequence of its words
ValidationResult(is_valid, error_message, syntax_errors) ==
    [raised |-> None, is_valid |-> is_valid, error_message |-> error_message,
     syntax_errors |-> syntax_errors]

quantifier_never_required(code, e) ==
    IF e.type = "SyntaxError"
    THEN ValidationResult(FALSE, <<"Syntax error:", e.text>>, <<e.text>>)
    ELSE IF e.type # None
    THEN [raised |-> e.type, is_valid |-> FALSE, error_message |-> <<>>, syntax_errors |-> <<>>]
    ELSE IF ~Contains("symbolic_mode", code)
    THEN ValidationResult(FALSE, <<"Query", "must", "use", "symbolic_mode", "context">>, <<>>)
    ELSE ValidationResult(TRUE, <<>>, <<>>)

\* EQLQueryValidator.validate, e being how compile ended
validate(code, e) ==
    IF e.type = "SyntaxError"
    THEN ValidationResult(FALSE, <<"Syntax error:", e.text>>, <<e.text>>)
    ELSE IF e.type # None
    THEN [raised |-> e.type, is_valid |-> FALSE, error_message |-> <<>>, syntax_errors |-> <<>>]
    ELSE IF ~Contains("symbolic_mode", code)
    THEN ValidationResult(FALSE, <<"Query", "must", "use", "symbolic_mode", "context">>, <<>>)
    ELSE IF ~(Contains("an(", code) \/ Contains("the(", code))
    THEN ValidationResult(FALSE,
                          <<"Query", "must", "use", "a", "quantifier", "(an", "or", "the)">>,
                          <<>>)
    ELSE ValidationResult(TRUE, <<>>, <<>>)

ValidatorInit ==
    /\ query_code \in SeqsUpTo(Lines, MaxLines)
    /\ validation = <<>>
    /\ EqlIdle
    /\ ClassifyIdle
    /\ DiagramIdle
    /\ OntologyIdle
    /\ NlpIdle

\* validator.validate(query_code)
Validate ==
    /\ validation = <<>>
    /\ \E e \in compile(query_code) : validation' = <<validate(query_code, e)>>
    /\ UNCHANGED query_code
    /\ UNCHANGED not_validator_vars

ValidatorNext == Validate

ValidatorSpec == ValidatorInit /\ [][ValidatorNext]_vars

\* ------------------------------------------------------------------ properties of the validator

Compiles(code) == (\A i \in DOMAIN code : code[i] # "NUL") /\ Scan(code, 0) = None

HasQuantifier(code) == Contains("an(", code) \/ Contains("the(", code)

Mentions(message, word) == \E i \in DOMAIN message : message[i] = word

\* what validate returned, if it returned
Reported == {validation[i] : i \in {j \in DOMAIN validation : validation[j].raised = None}}

\* the parts of the statement that hold for every query
ValidityAndSyntaxErrors(v) ==
    /\ v.is_valid <=> /\ Compiles(query_code)
                      /\ Contains("symbolic_mode", query_code)
                      /\ HasQuantifier(query_code)
    /\ ~Compiles(query_code) =>
          /\ ~v.is_valid
          /\ Mentions(v.error_message, "Syntax error:")
          /\ v.syntax_errors # <<>>
    /\ v.is_valid => v.error_message = <<>> /\ v.syntax_errors = <<>>

\* C18 (as stated): valid iff the code compiles and contains symbolic_mode and
\* a quantifier; a syntax error gives an invalid result with "Syntax error"
\* in the message and a non-empty syntax_errors list; a query without
\* symbolic_mode gets a message naming symbolic_mode; a query with
\* symbolic_mode and without quantifier gets a message naming the quantifier;
\* a valid result has an empty message and no syntax errors.
C18_ValidateReports ==
    \A v \in Reported :
        /\ ValidityAndSyntaxErrors(v)
        /\ ~Contains("symbolic_mode", query_code) => Mentions(v.error_message, "symbolic_mode")
        /\ (Contains("symbolic_mode", query_code) /\ ~HasQuantifier(query_code)) =>
              Mentions(v.error_message, "quantifier")

\* C18 (amended): the same, the two messages about missing constructs being
\* those of a query that compiles; a query that does not compile gets the
\* syntax error message whatever else it lacks.
C18_ValidateReportsInOrder ==
    \A v \in Reported :
        /\ ValidityAndSyntaxErrors(v)
        /\ (Compiles(query_code) /\ ~Contains("symbolic_mode", query_code)) =>
              /\ Mentions(v.error_message, "symbolic_mode")
              /\ v.syntax_errors = <<>>
        /\ (Compiles(query_code) /\ Contains("symbolic_mode", query_code)
                /\ ~HasQuantifier(query_code)) =>
              /\ Mentions(v.error_message, "quantifier")
              /\ v.syntax_errors = <<>>
        /\ ~Compiles(query_code) =>
              ~Mentions(v.error_message, "symbolic_mode") /\ ~Mentions(v.error_message, "quantifier")

\* a query with an unclosed parenthesis and without symbolic_mode has been
\* validated: the syntax error is what the result reports
C18_Witness ==
    /\ query_code = <<"x,", "an(", "x,">>
    /\ validation # <<>>
    /\ validation[1].raised = None
    /\ ~validation[1].is_valid
    /\ Mentions(validation[1].error_message, "Syntax error:")
    /\ validation[1].syntax_errors # <<>>


\* ======================================================================
\* ormatic/wrapped_ontology.py: RDF properties of the fields of a class
\* ======================================================================

\* ------------------------------------------------------------------ bounds

MaxFields == 2

\* ------------------------------------------------------------------ rdf_types.py

PYTHON_TO_XSD_TYPES ==
    [c \in {"int", "float", "str", "bool", "datetime", "date", "time"} |->
        CASE c = "int" -> "xsd:integer"
          [] c = "float" -> "xsd:float"
          [] c = "str" -> "xsd:string"
          [] c = "bool" -> "xsd:boolean"
          [] c = "datetime" -> "xsd:dateTime"
          [] c = "date" -> "xsd:date"
          [] c = "time" -> "xsd:time"]

\* the same table, keyed by the name of the type
STRING_TO_XSD_TYPES == PYTHON_TO_XSD_TYPES

\* A Python string is the sequence of its pieces, [str |-> <<...>>]:
\* "Optional[Position]" is Str(<<"Optional[", "Position", "]">>).
Str(pieces) == [str |-> pieces]

isinstance_str(x) == DOMAIN x = {"str"}

\* isinstance(x, type): a class, not a string and not an alias of typing
isinstance_type(x) == ~isinstance_str(x) /\ get_origin(x) = None

get_xsd_type(python_type) ==
    IF isinstance_str(python_type)
    THEN IF Len(python_type.str) = 1 /\ python_type.str[1] \in DOMAIN STRING_TO_XSD_TYPES
         THEN STRING_TO_XSD_TYPES[python_type.str[1]]
         ELSE "xsd:string"
    ELSE IF isinstance_type(python_type) /\ python_type.cls \in DOMAIN PYTHON_TO_XSD_TYPES
         THEN PYTHON_TO_XSD_TYPES[python_type.cls]
         ELSE "xsd:string"

\* ------------------------------------------------------------------ the wrapped class

\* the class the ontology is generated for; Node refers to itself
wrapped_clazz == "a.Node"

class_name == __name__(wrapped_clazz)

__module__(c) ==
    CASE c \in {"int", "float", "str", "bool", "NoneType"} -> "builtins"
      [] c = "datetime" -> "datetime"
      [] c \in {"a.Node", "a.Position", "a.Color"} -> "a"

\* class_diagrams/utils.is_builtin_class, as the list of strings of the test
\* classes requires: the classes of module builtins
is_builtin_class(t) == isinstance_type(t) /\ __module__(t.cls) = "builtins"

is_collection_of_builtins(t) ==
    is_container(t) /\ \A i \in 1..Len(get_args(t)) : is_builtin_class(get_args(t)[i])

\* no custom type mappings are configured
type_mappings == {}

\* ------------------------------------------------------------------ WrappedOntology
\* A wrapped field is [name, type, resolved_type]: the dataclass field's
\* name, its annotation as the dataclass keeps it (a string when annotations
\* are postponed, the type otherwise) and the type the annotation resolves to.

\* `a and b`: b is read only when a is True; none of the fields below makes
\* a property raise
_should_skip_field(wrapped_field, mapped) ==
    LET t == wrapped_field.resolved_type
        is_handled ==
            \/ is_type_type(t)
            \/ (is_builtin_type(t).value \/ is_enum(t)) /\ ~is_container(t)
            \/ is_one_to_one_relationship(t).value /\ type_endpoint(t).value \in mapped
            \/ is_one_to_one_relationship(t).value /\ type_endpoint(t).value \in type_mappings
            \/ is_collection_of_builtins(t)
            \/ is_one_to_many_relationship(t).value
    IN \/ wrapped_field.name = "database_id"
       \/ wrapped_field.name \in {"_hidden"}
       \/ ~is_handled

startswith(s, piece) == Len(s.str) >= 1 /\ s.str[1] = piece

endswith(s, piece) == Len(s.str) >= 1 /\ s.str[Len(s.str)] = piece

\* field_type[9:-1] and field_type[5:-1]: the opening piece and the last
\* character are cut off
_extract_inner_type(annotation) ==
    IF startswith(annotation, "Optional[") /\ endswith(annotation, "]")
    THEN Str(SubSeq(annotation.str, 2, Len(annotation.str) - 1))
    ELSE IF startswith(annotation, "List[") /\ endswith(annotation, "]")
    THEN Str(SubSeq(annotation.str, 2, Len(annotation.str) - 1))
    ELSE annotation

\* (annotation is the local field_type of the methods)
\* the two unwrapping steps the three methods share: Union, then list
AfterUnion(annotation) ==
    IF ~isinstance_str(annotation) /\ get_origin(annotation) = "Union"
           /\ Len(get_args(annotation)) > 0
    THEN get_args(annotation)[1] ELSE annotation

AfterList(annotation) ==
    IF ~isinstance_str(annotation) /\ get_origin(annotation) = "list"
           /\ Len(get_args(annotation)) > 0
    THEN get_args(annotation)[1] ELSE annotation

builtin_types ==
    {"int", "float", "str", "bool", "bytes", "bytearray", "complex", "dict",
     "frozenset", "list", "set", "tuple", "None", "type"}

_is_object_property(wrapped_field) ==
    LET annotation == AfterList(AfterUnion(wrapped_field.type))
    IN IF isinstance_str(annotation)
       THEN LET inner == _extract_inner_type(annotation)
            IN ~(Len(inner.str) = 1 /\ inner.str[1] \in builtin_types)
       ELSE IF isinstance_type(annotation)
       THEN __module__(annotation.cls) \notin {"builtins", "typing"}
                /\ annotation.cls \notin Enums
       ELSE FALSE

RDFProperty(name, property_type, domain_, range, optional, list) ==
    [name |-> name, property_type |-> property_type, domain |-> domain_,
     range |-> range, is_optional |-> optional, is_list |-> list]

\* is_optional and is_list as both methods compute them
IsOptionalFlag(t) ==
    \/ ~isinstance_str(t) /\ get_origin(t) = "Union"
    \/ isinstance_str(AfterList(AfterUnion(t)))
           /\ startswith(AfterList(AfterUnion(t)), "Optional[")

IsListFlag(t) ==
    \/ ~isinstance_str(AfterUnion(t)) /\ get_origin(AfterUnion(t)) = "list"
    \/ isinstance_str(AfterList(AfterUnion(t)))
           /\ startswith(AfterList(AfterUnion(t)), "List[")

StripWrappers(t) ==
    LET annotation == AfterList(AfterUnion(t))
    IN IF isinstance_str(annotation) THEN _extract_inner_type(annotation) ELSE annotation

\* the range of a property is a string
_create_datatype_property(wrapped_field) ==
    LET annotation == StripWrappers(wrapped_field.type)
        xsd_type == IF isinstance_type(annotation) /\ annotation.cls \in Enums
                    THEN "xsd:string" ELSE get_xsd_type(annotation)
    IN RDFProperty(wrapped_field.name, "owl:DatatypeProperty", class_name,
                   Str(<<xsd_type>>), IsOptionalFlag(wrapped_field.type),
                   IsListFlag(wrapped_field.type))

\* str(field_type) of a string is the string itself
_create_object_property(wrapped_field) ==
    LET annotation == StripWrappers(wrapped_field.type)
        target_class_name == IF isinstance_type(annotation)
                             THEN Str(<<__name__(annotation.cls)>>)
                             ELSE annotation
    IN RDFProperty(wrapped_field.name, "owl:ObjectProperty", class_name,
                   target_class_name, IsOptionalFlag(wrapped_field.type),
                   IsListFlag(wrapped_field.type))

\* parse_fields, split by the list a property is appended to
RECURSIVE parse_fields(_, _, _)
parse_fields(fs, mapped, object) ==
    IF fs = <<>> THEN <<>>
    ELSE LET f == Head(fs)
             rest == parse_fields(Tail(fs), mapped, object)
         IN IF _should_skip_field(f, mapped) THEN rest
            ELSE IF _is_object_property(f)
            THEN (IF object THEN <<_create_object_property(f)>> ELSE <<>>) \o rest
            ELSE (IF object THEN <<>> ELSE <<_create_datatype_property(f)>>) \o rest

all_properties == datatype_properties \o object_properties

\* ------------------------------------------------------------------ declared fields

ElementClasses == {"float", "str", "datetime", "a.Position", "a.Node", "a.Color"}

FieldNames == {"x", "_hidden", "database_id"}

\* what the annotation resolves to, and how it is spelled when postponed
Annotations ==
    {[resolved_type |-> ClassType(c), text |-> Str(<<__name__(c)>>)] : c \in ElementClasses}
      \cup {[resolved_type |-> Optional(ClassType(c)),
             text |-> Str(<<"Optional[", __name__(c), "]">>)] : c \in ElementClasses}
      \cup {[resolved_type |-> Alias("list", <<ClassType(c)>>),
             text |-> Str(<<"List[", __name__(c), "]">>)] : c \in ElementClasses}

DeclaredFields ==
    {[name |-> n, type |-> a.text, resolved_type |-> a.resolved_type] :
        n \in FieldNames, a \in Annotations}
      \cup {[name |-> n, type |-> a.resolved_type, resolved_type |-> a.resolved_type] :
        n \in FieldNames, a \in Annotations}

DistinctNames(fs) == \A i, j \in 1..Len(fs) : fs[i].name = fs[j].name => i = j

OntologyInit ==
    /\ fields \in {fs \in UNION {[1..n -> DeclaredFields] : n \in 0..MaxFields} :
                        DistinctNames(fs)}
    /\ mapped_classes \in {{}, {ClassType("a.Position"), ClassType("a.Node")}}
    /\ datatype_properties = <<>>
    /\ object_properties = <<>>
    /\ parsed = FALSE
    /\ EqlIdle
    /\ ClassifyIdle
    /\ DiagramIdle
    /\ ValidatorIdle
    /\ NlpIdle

\* WrappedOntology(wrapped_clazz, ormatic): __post_init__ parses the fields
ParseFields ==
    /\ ~parsed
    /\ datatype_properties' = parse_fields(fields, mapped_classes, FALSE)
    /\ object_properties' = parse_fields(fields, mapped_classes, TRUE)
    /\ parsed' = TRUE
    /\ UNCHANGED <<fields, mapped_classes>>
    /\ UNCHANGED not_ontology_vars

OntologyNext == ParseFields

OntologySpec == OntologyInit /\ [][OntologyNext]_vars

\* ------------------------------------------------------------------ properties

\* the class a field holds: the annotation without Optional or List
ElementType(wrapped_field) ==
    LET t == wrapped_field.resolved_type
    IN IF get_origin(t) = None THEN t ELSE get_args(t)[1]

UserDefinedClasses == {ClassType("a.Position"), ClassType("a.Node")}

BuiltinScalars == {ClassType(c) : c \in {"int", "float", "str", "bool", "datetime"}}

PropertiesOf(wrapped_field) ==
    SelectSeq(all_properties, LAMBDA p : p.name = wrapped_field.name)

BecomesTheProperty(wrapped_field, property_type, range) ==
    /\ Len(PropertiesOf(wrapped_field)) = 1
    /\ PropertiesOf(wrapped_field)[1].domain = class_name
    /\ PropertiesOf(wrapped_field)[1].property_type = property_type
    /\ PropertiesOf(wrapped_field)[1].range = Str(<<range>>)

FieldBecomesItsProperty(wrapped_field) ==
    /\ Len(PropertiesOf(wrapped_field)) = 1
    /\ PropertiesOf(wrapped_field)[1].domain = class_name
    /\ ElementType(wrapped_field) \in UserDefinedClasses =>
           BecomesTheProperty(wrapped_field, "owl:ObjectProperty",
                              __name__(ElementType(wrapped_field).cls))
    /\ ElementType(wrapped_field) \in BuiltinScalars =>
           BecomesTheProperty(wrapped_field, "owl:DatatypeProperty",
                              PYTHON_TO_XSD_TYPES[ElementType(wrapped_field).cls])

\* C19: once the fields of a class are parsed, every field that is not
\* skipped has exactly one RDF property, with the class as domain: an
\* owl:ObjectProperty whose range is the name of the class when the field
\* holds a user-defined class (directly, optional or in a list, the class
\* itself included), an owl:DatatypeProperty whose range is the mapped xsd
\* type when it holds a builtin scalar.
C19_FieldsBecomeProperties ==
    parsed =>
        \A i \in 1..Len(fields) :
            ~_should_skip_field(fields[i], mapped_classes) =>
                FieldBecomesItsProperty(fields[i])

\* ======================================================================
\* match.py: resolution of the patterns a caller can write
\* ======================================================================

\* select_any(type_)
select_any(arg) == [select(arg) EXCEPT !.existential = TRUE]

\* the four ways to open a nested pattern over a class
Heads(t) == {match(TypeArg(t)), select(TypeArg(t)), match_any(TypeArg(t)),
             match_all(TypeArg(t))}

\* field constraints a nested pattern over class t may carry
ConstraintsOf(t) ==
    CASE t \in {"Body", "Container", "Handle"} ->
            {<<>>, <<KW("name", LiteralValue(Sc("Container1")))>>}
      [] t = "Drawer" ->
            {<<>>,
             <<KW("handle", LiteralValue(Sc("hx")))>>,
             <<KW("handle", MatchValue(Call(select(TypeArg("Handle")),
                    <<KW("name", LiteralValue(Sc("Handle1")))>>))),
               KW("container", MatchValue(match(TypeArg("Container"))))>>}
      [] t = "Cabinet" ->
            {<<>>,
             <<KW("container", LiteralValue(Sc("c1"))),
               KW("drawers", MatchValue(Call(match(TypeArg("Drawer")),
                    <<KW("handle", MatchValue(Call(match(TypeArg("Handle")),
                            <<KW("name", LiteralValue(Sc("Handle1")))>>)))>>)))>>}
      [] OTHER -> {<<>>}

\* nested patterns over the classes ts, not yet resolved
NestedPatterns(ts) ==
    UNION {{MatchValue(Call(m, kwargs)) : m \in Heads(t), kwargs \in ConstraintsOf(t)} :
             t \in ts}

\* values that need no resolution: plain values, and patterns over a value
ResolvedValues ==
    {LiteralValue(Sc("c1")), LiteralValue(Li(<<"dm">>)), LiteralValue(Li(<<"c1", "h1">>)),
     MatchValue(match(ValueArg(Sc("c1")))),
     MatchValue(match(ValueArg(Li(<<"dm">>)))),
     MatchValue(match_any(ValueArg(Li(<<"dm", "d1">>)))),
     MatchValue(match_all(ValueArg(Li(<<"dm">>)))),
     MatchValue(select(ValueArg(Li(<<"dm">>)))),
     MatchValue(select_any(ValueArg(Li(<<"dm">>)))),
     MatchValue(select_any(ValueArg(Sc("c1"))))}

\* what a caller may assign to a field of class t: the declared class of the
\* field, classes below and above it, an unrelated class and no class at all
ValuesFor(t, f) ==
    ResolvedValues \cup
    CASE t = "FixedConnection" /\ f \in {"parent", "child"} ->
            NestedPatterns({"Body", "Container", "Handle", "Drawer", None})
      [] t = "Cabinet" /\ f = "drawers" -> NestedPatterns({"Drawer", "View", "Handle", None})
      [] t = "Cabinet" /\ f = "container" -> NestedPatterns({"Container", "Body"})
      [] t = "World" /\ f = "views" -> NestedPatterns({"View", "Cabinet", "Drawer"})

FieldsOf(t) ==
    CASE t = "FixedConnection" -> {"parent", "child"}
      [] t = "Cabinet" -> {"drawers", "container"}
      [] t = "World" -> {"views"}

\* a second field constraint next to the first
SecondConstraints(t) ==
    CASE t = "FixedConnection" ->
            {KW("child", MatchValue(Call(match(TypeArg("Handle")),
                    <<KW("name", LiteralValue(Sc("Handle1")))>>))),
             KW("child", MatchValue(match_any(ValueArg(Sc("h1")))))}
      [] t = "Cabinet" ->
            {KW("container", MatchValue(select(TypeArg("Container")))),
             KW("container", MatchValue(Call(match(TypeArg("Container")),
                    <<KW("name", LiteralValue(Sc("Container1")))>>)))}
      [] t = "World" -> {}

\* The patterns a caller may build over a collection `dom`: the patterns of
\* the tests, no constraint, one constraint, and two constraints on different
\* fields (keyword arguments do not repeat).
Patterns(dom) ==
    SeqToSet(Queries(dom))
      \cup UNION {
            UNION {{Call(entity_matching(t, dom), <<KW(f, v)>>) : v \in ValuesFor(t, f)}
                     \cup {Call(entity_matching(t, dom), <<KW(f, v), kw>>) :
                              v \in ValuesFor(t, f),
                              kw \in {k \in SecondConstraints(t) : k.name # f}} :
                   f \in FieldsOf(t)} :
            t \in {"FixedConnection", "Cabinet", "World"}}

ResolveInit ==
    /\ query = 0
    /\ domain \in {<<>>, <<"fc1", "cabA">>}
    /\ pattern \in Patterns(domain)
    /\ matches = InitialMatches(pattern)
    /\ error = None
    /\ expression = <<>>
    /\ accesses = 0
    /\ front_end = None
    /\ quantifier = <<>>
    /\ source_pos = 0
    /\ cache = <<>>
    /\ cursor = IdleCursor
    /\ runs = <<>>
    /\ result = <<>>
    /\ ClassifyIdle
    /\ DiagramIdle
    /\ ValidatorIdle
    /\ OntologyIdle
    /\ NlpIdle

ResolveNext ==
    \/ \E quantifier_type \in {"An", "The"} : Quantify(quantifier_type)
    \/ ExpressionAgain

ResolveSpec == ResolveInit /\ [][ResolveNext]_vars

\* ------------------------------------------------------------------ properties of resolution

\* The pattern was resolved as the caller built it: the first request for its
\* expression met no exception.  (A request after a failed one finds nested
\* patterns that are no longer unresolved.)
ResolvedAsBuilt ==
    Resolved /\ ComputeExpression(InitialMatches(pattern)).error = None

\* the field constraints of the tree: node n, its kwargs entry i
FieldConstraints ==
    {c \in NodesOf(pattern) \X (1..3) : c[2] \in DOMAIN Node(c[1]).kwargs}

\* the nested patterns that were resolved through the field they are assigned to
NestedResolved ==
    {c \in FieldConstraints :
        /\ Node(c[1]).kwargs[c[2]].value.is_match
        /\ matches[c[1] \o <<c[2]>>].parent = <<c[1]>>}

\* the attribute a field constraint is about, and the pattern assigned to it
AttributeOf(c) == Attribute(matches[c[1]].variable, Node(c[1]).kwargs[c[2]].name)

ChildOf(c) == c[1] \o <<c[2]>>

\* the class the nested pattern was opened with
RequestedType(c) == Node(ChildOf(c)).type_

\* the HasType conditions of a pattern on the attribute of c, unnested or not
TypeFilters(c) ==
    SelectSeq(matches[c[1]].conditions,
              LAMBDA x : x.k = "HasType"
                           /\ x.var \in {AttributeOf(c), flatten(AttributeOf(c))})

StrictSubtype(c) ==
    /\ RequestedType(c) # None
    /\ NodeType(AttributeOf(c)) # None
    /\ RequestedType(c) # NodeType(AttributeOf(c))
    /\ issubclass(RequestedType(c), NodeType(AttributeOf(c)))

SameType(c) ==
    RequestedType(c) # None /\ RequestedType(c) = NodeType(AttributeOf(c))

\* C21: after resolution, a nested pattern that was resolved through its field
\* has left exactly one HasType(attribute, requested type) among the conditions
\* of the pattern holding the field when the requested type is a strict subtype
\* of the attribute's declared type, and none when the two types are the same.
C21_TypeFilterForStrictSubtypesOnly ==
    ResolvedAsBuilt =>
        \A c \in NestedResolved :
            /\ StrictSubtype(c) =>
                  /\ Len(TypeFilters(c)) = 1
                  /\ TypeFilters(c)[1].type_ = RequestedType(c)
            /\ SameType(c) => TypeFilters(c) = <<>>

\* a connection whose parent is asked to be a Body, as declared, and whose
\* child is asked to be a Handle
C21_Witness ==
    /\ ResolvedAsBuilt
    /\ \E c \in NestedResolved : StrictSubtype(c) /\ Len(TypeFilters(c)) = 1
    /\ \E c \in NestedResolved : SameType(c) /\ TypeFilters(c) = <<>>

\* the nested patterns assigned to an attribute that holds a collection and
\* declared with a class above the requested one
FilteredAndUnnested ==
    {c \in NestedResolved : StrictSubtype(c) /\ NodeIsIterable(AttributeOf(c))}

\* q holds x followed at once by the elements of r
FollowedBy(q, x, r) ==
    \E k \in DOMAIN q : q[k] = x /\ k + Len(r) <= Len(q) /\ SubSeq(q, k + 1, k + Len(r)) = r

\* the condition of the descriptor: the conjuncts it is made of
ConjunctsOfDescriptor ==
    IF Descriptor.child = <<>> THEN <<>>
    ELSE IF Descriptor.child[1].k = "AND" THEN Descriptor.child[1].children
    ELSE Descriptor.child

AssignedResolved ==
    {c \in FieldConstraints \ NestedResolved : matches[c[1]].variable # NoVar}

Existential(c) ==
    Node(c[1]).kwargs[c[2]].value.is_match /\ Node(ChildOf(c)).existential

\* a comparator with the attribute of c, unnested or not, on one of its sides
ComparesAttribute(x, c) ==
    /\ x.k = "Comparator"
    /\ {x.left, x.right} \cap {AttributeOf(c), flatten(AttributeOf(c))} # {}

\* the conditions the holder of c has for its attribute: comparators, bare or
\* under an Exists
ConditionsFor(c) ==
    SelectSeq(matches[c[1]].conditions,
              LAMBDA x : \/ ComparesAttribute(x, c)
                         \/ x.k = "Exists" /\ ComparesAttribute(x.cond, c))

\* C23: a value that needs no resolution leaves one condition for its
\* attribute.  When the value is a pattern marked existential the condition
\* is a comparator under one Exists whose variable is the attribute itself,
\* not its unnesting; otherwise it is the bare comparator.
C23_ExistentialConditionsAreWrappedOnce ==
    ResolvedAsBuilt =>
        \A c \in AssignedResolved :
            /\ Len(ConditionsFor(c)) = 1
            /\ IF Existential(c)
               THEN /\ ConditionsFor(c)[1].k = "Exists"
                    /\ ConditionsFor(c)[1].var = AttributeOf(c)
                    /\ ConditionsFor(c)[1].cond.k = "Comparator"
               ELSE ConditionsFor(c)[1].k = "Comparator"

\* select_any over a list assigned to the drawers of a cabinet: the
\* comparator is on the unnested drawers, the Exists on the drawers
C23_Witness ==
    /\ ResolvedAsBuilt
    /\ \E c \in AssignedResolved :
          /\ Existential(c)
          /\ IsSelect(Assigned(c[1], c[2]))
          /\ NodeIsIterable(AttributeOf(c))
          /\ ConditionsFor(c)[1].k = "Exists"
          /\ flatten(AttributeOf(c)) \in {ConditionsFor(c)[1].cond.left,
                                          ConditionsFor(c)[1].cond.right}

\* what the field constraint c contributes to the pattern holding it: the
\* type filter and the conditions of the nested pattern resolved through it,
\* or the one condition of a value that needed no resolution
ConditionsOfField(c) ==
    IF c \in NestedResolved
    THEN TypeFilters(c) \o matches[ChildOf(c)].conditions
    ELSE ConditionsFor(c)

\* the field constraints of the pattern at n, in the order they were written
ConditionsInFieldOrder(n) ==
    ConcatAll([i \in DOMAIN Node(n).kwargs |-> ConditionsOfField(<<n, i>>)])

\* the patterns that were resolved: the root and all that were resolved
\* through a field, at any depth
ResolvedPatterns == {<<>>} \cup {ChildOf(c) : c \in NestedResolved}

\* C24: the conditions of every resolved pattern are the contributions of
\* its fields in the order of the fields, a nested pattern contributing all of
\* its own conditions in one block; so the conditions of the root hold those
\* of every nested pattern, depth first.  The expression's condition is the
\* conjunction of the root's conditions: the condition itself when there is
\* one, none when there is none.
C24_ConditionsMergeIntoTheRoot ==
    ResolvedAsBuilt =>
        /\ \A n \in ResolvedPatterns : matches[n].conditions = ConditionsInFieldOrder(n)
        /\ Descriptor.child =
              CASE Len(matches[<<>>].conditions) = 0 -> <<>>
                [] Len(matches[<<>>].conditions) = 1 -> <<matches[<<>>].conditions[1]>>
                [] OTHER -> <<AND(matches[<<>>].conditions)>>

\* a pattern two levels below the root brought a condition, and a later
\* field of the root brought another
C24_Witness ==
    /\ ResolvedAsBuilt
    /\ \E c \in NestedResolved :
          /\ Len(c[1]) >= 1
          /\ matches[ChildOf(c)].conditions # <<>>
    /\ \E c \in NestedResolved :
          /\ c[1] = <<>>
          /\ c[2] >= 2
          /\ matches[ChildOf(c)].conditions # <<>>
    /\ Descriptor.child[1].k = "AND"

\* ------------------------------------------------------------------ match.py: what resolution touches
\* A caller who built a nested pattern holds the object and may ask for its
\* expression as for any pattern, before or after the pattern around it was
\* resolved.

\* Match.expression of the pattern at n, first access: the mutable fields of
\* all patterns and the exception, if one was raised
ExpressionOf(n) ==
    LET S == _resolve([m |-> matches, error |-> None], n, NoVar, <<>>)
    IN IF S.error = None /\ S.m[n].selected_variables = <<>>
       THEN [S EXCEPT !.m[n].selected_variables = <<S.m[n].variable>>]
       ELSE S

\* the expression of a nested pattern is requested for the first time: the
\* pattern is as it was built, or was resolved through the field holding it
NestedExpression(n) ==
    /\ n # <<>>
    /\ matches[n] = InitialMatches(pattern)[n] \/ matches[n].parent # <<>>
    /\ \E r \in {ExpressionOf(n)} :
          /\ matches' = r.m
          /\ error' = r.error
    /\ UNCHANGED <<query, domain, pattern, expression, accesses, front_end, quantifier,
                   source_pos, cache, cursor, runs, result>>
    /\ UNCHANGED not_eql_vars

FrameNext ==
    \/ \E quantifier_type \in {"An", "The"} : Quantify(quantifier_type)
    \/ ExpressionAgain
    \/ \E n \in NodesOf(pattern) : NestedExpression(n)

FrameSpec == ResolveInit /\ [][FrameNext]_vars

\* the pattern at k is the pattern at n or nested inside it
Within(n, k) == Len(k) >= Len(n) /\ SubSeq(k, 1, Len(n)) = n

\* the patterns whose mutable fields differ after the step
Touched == {k \in NodesOf(pattern) : matches'[k] # matches[k]}

\* C25: a step that resolves a pattern leaves the pattern tree as it was
\* built (the keyword arguments with their plain values, the collection of the
\* root), the collection itself and every other part of the program's state
\* unchanged; the mutable fields that change belong to the pattern resolved or
\* to patterns nested inside it, so a pattern around it or beside it keeps its
\* variable, parent, conditions and selected variables.
C25_ResolutionTouchesOnlyThePattern ==
    [][/\ pattern' = pattern
       /\ domain' = domain
       /\ UNCHANGED not_eql_vars
       /\ \A n \in NodesOf(pattern) :
             NestedExpression(n) => \A k \in Touched : Within(n, k)]_vars

\* a nested select was resolved through its field and then on its own: it
\* selects its variable itself, next to the selection of the root
C25_Witness ==
    /\ Resolved
    /\ \E n \in NodesOf(pattern) \ {<<>>} :
          /\ Node(n).cls = "Select"
          /\ Node(n).variable = NoVar
          /\ Len(matches[n].variable.path) > 1
          /\ matches[n].parent = <<>>
          /\ matches[n].variable \in SeqToSet(matches[n].selected_variables)
          /\ matches[n].variable \in SeqToSet(matches[<<>>].selected_variables)
          /\ matches[n].conditions # <<>>

\* ------------------------------------------------------------------ entity.py: a disjunction
\* A query written with entity() and or_() over a variable of let(): the
\* variable stands where the variable of a root pattern stands.

cabinet == let("Cabinet", <<>>)

\* conditions a caller may put under or_: on the container, on the drawers
\* (the list, and the unnested drawers against a list of two)
Branches ==
    {Comparator(Attribute(cabinet, "container"), Literal(Sc("c1")), "eq"),
     Comparator(Attribute(cabinet, "container"), Literal(Sc("cx")), "eq"),
     contains(Attribute(cabinet, "drawers"), Literal(Sc("dm"))),
     contains(Attribute(cabinet, "drawers"), Literal(Sc("d1"))),
     contains(Literal(Li(<<"dm", "d1">>)), flatten(Attribute(cabinet, "drawers")))}

Disjunctions ==
    {<<x, y>> : x \in Branches, y \in Branches}
      \cup {<<x, y, x>> : x \in Branches, y \in Branches}

OrDomains == {<<"cabA", "cabC", "cabD">>, <<"cabE", "c1", "cabB">>, <<"cabC">>}

OrInit ==
    /\ query = 0
    /\ domain \in OrDomains
    /\ pattern = entity_matching("Cabinet", domain)
    /\ matches = [InitialMatches(pattern) EXCEPT ![<<>>].variable = cabinet]
    /\ error = None
    /\ \E conditions \in Disjunctions : expression = <<entity(cabinet, <<or_(conditions)>>)>>
    /\ accesses = 1
    /\ front_end \in {"an", "the"}
    /\ quantifier = IF front_end = "the" THEN <<the(expression[1])>> ELSE <<an(expression[1])>>
    /\ source_pos = 0
    /\ cache = <<>>
    /\ cursor = IdleCursor
    /\ runs = <<>>
    /\ result = <<>>
    /\ ClassifyIdle
    /\ DiagramIdle
    /\ ValidatorIdle
    /\ OntologyIdle
    /\ NlpIdle

OrNext ==
    \/ TheEvaluate
    \/ AnEvaluate
    \/ AnNext

OrSpec == OrInit /\ [][OrNext]_vars

\* the binding sets that extend "the cabinet is e" and satisfy a branch
SatisfyingBindings(e) ==
    UNION {SeqToSet(EvalCondition(Descriptor.child[1].children[i], (cabinet.path :> Sc(e)))) :
             i \in DOMAIN Descriptor.child[1].children}

Emitted(out, e) == Count(out, LAMBDA x : x = Sc(e))

\* C26: under an OR every binding set that satisfies at least one branch is
\* emitted once: a completed iteration holds a cabinet of the collection as
\* many times as there are different binding sets satisfying some branch
\* for it, however many branches each of them satisfies, and the(...) returns
\* a value exactly when there is one such binding set in all.
C26_OrEmitsEachBindingSetOnce ==
    /\ \A i \in DOMAIN runs : \A e \in SeqToSet(TypedDomain) :
          Emitted(runs[i], e) = Cardinality(SatisfyingBindings(e))
    /\ TheEvaluated =>
          (result[1].kind = "value" <=>
              Cardinality(UNION {SatisfyingBindings(e) : e \in SeqToSet(TypedDomain)}) = 1)

\* a cabinet whose one binding set satisfies two different branches came out
\* once
C26_Witness ==
    /\ runs # <<>>
    /\ \E e \in SeqToSet(TypedDomain) :
          /\ Emitted(runs[1], e) = 1
          /\ \E i, j \in DOMAIN Descriptor.child[1].children :
                /\ Descriptor.child[1].children[i] # Descriptor.child[1].children[j]
                /\ EvalCondition(Descriptor.child[1].children[i], (cabinet.path :> Sc(e))) # <<>>
                /\ EvalCondition(Descriptor.child[1].children[j], (cabinet.path :> Sc(e))) # <<>>

\* ======================================================================
\* nlp_to_eql/service.py: the conversion services
\* ======================================================================

MaxCalls == 3

\* models.EQLQueryResult, as far as the services read or write it; the
\* confidence is in tenths
EQLQueryResult(code, confidence, error_message) ==
    [query_code |-> code, confidence |-> confidence, error_message |-> error_message]

\* str(result.confidence)
str(confidence) ==
    CASE confidence = 0 -> "0.0"
      [] confidence = 7 -> "0.7"
      [] confidence = 9 -> "0.9"

\* how provider.generate_eql(natural_query) may end: an exception, or a
\* result (valid code, code without symbolic_mode, without quantifier, code
\* that does not compile, code with a null byte)
Generates(eql_result) == [raised |-> None, result |-> <<eql_result>>]

Provided ==
    {[raised |-> "ConnectionError", result |-> <<>>],
     Generates(EQLQueryResult(<<"symbolic_mode,", "an(", "),">>, 9, <<>>)),
     Generates(EQLQueryResult(<<"symbolic_mode,", "the(", "),">>, 7, <<"truncated">>)),
     Generates(EQLQueryResult(<<"x,">>, 9, <<"truncated">>)),
     Generates(EQLQueryResult(<<"symbolic_mode,">>, 7, <<>>)),
     Generates(EQLQueryResult(<<"(">>, 9, <<>>)),
     Generates(EQLQueryResult(<<"NUL">>, 9, <<>>))}

Texts == {"find all bodies", "find the handle"}

\* SystemPromptBuilder(class_diagram).build_system_prompt()
build_system_prompt(class_diagram) == <<"system prompt", class_diagram>>

Exchange(user, assistant, confidence) ==
    [user |-> user, assistant |-> assistant, confidence |-> confidence]

\* the result with its confidence left as the provider gave it
confidence_kept(eql_result, validation_result) ==
    IF ~validation_result.is_valid
    THEN [eql_result EXCEPT !.error_message = validation_result.error_message]
    ELSE eql_result

\* convert, from `if not validation_result.is_valid` to the return
AfterValidation(eql_result, validation_result) ==
    IF ~validation_result.is_valid
    THEN [eql_result EXCEPT !.error_message = validation_result.error_message,
                        !.confidence = 0]
    ELSE eql_result

\* the exchange recorded after validation, from the result to be returned
convert_records_what_it_returns(svc, text, provided, e) ==
    IF provided.raised # None
    THEN [service |-> svc, raised |-> provided.raised, result |-> <<>>]
    ELSE LET validation_result == validate(provided.result[1].query_code, e)
             eql_result == AfterValidation(provided.result[1], validation_result)
         IN IF validation_result.raised # None
            THEN [service |-> svc, raised |-> validation_result.raised, result |-> <<>>]
            ELSE [service |->
                     IF svc.cls = "ConversationalEQLService"
                     THEN [svc EXCEPT !.conversation_history =
                              Append(@, Exchange(text, eql_result.query_code,
                                                 str(eql_result.confidence)))]
                     ELSE svc,
                  raised |-> None, result |-> <<eql_result>>]

\* NaturalLanguageToEQLService.convert and ConversationalEQLService.convert:
\* `provided` is how the provider ended, e how compile ends on the code.
\* [service, raised, result]: the service afterwards, and the exception or
\* the result returned.
convert(svc, text, provided, e) ==
    IF provided.raised # None
    THEN [service |-> svc, raised |-> provided.raised, result |-> <<>>]
    ELSE LET eql_result == provided.result[1]
             svc1 == IF svc.cls = "ConversationalEQLService"
                     THEN [svc EXCEPT !.conversation_history =
                              Append(@, Exchange(text, eql_result.query_code,
                                                 str(eql_result.confidence)))]
                     ELSE svc
             validation_result == validate(eql_result.query_code, e)
         IN IF validation_result.raised # None
            THEN [service |-> svc1, raised |-> validation_result.raised, result |-> <<>>]
            ELSE [service |-> svc1, raised |-> None,
                  result |-> <<AfterValidation(eql_result, validation_result)>>]

\* ConversationalEQLService.clear_history
clear_history(svc) == [svc EXCEPT !.conversation_history = <<>>]

\* one call in the record of calls; `self` is the service after the call
CallRecord(op, text, provided, raised, eql_result, history, self) ==
    [op |-> op, text |-> text, provided |-> provided, raised |-> raised,
     result |-> eql_result, history |-> history, self |-> self]

\* the service as the last call left it
service == calls[Len(calls)].self

NoProvided == [raised |-> None, result |-> <<>>]

\* a conversation an earlier session left, handed to the constructor
EarlierHistory == <<Exchange("find all cabinets", <<"symbolic_mode,", "an(", "),">>, "0.9")>>

\* NaturalLanguageToEQLService(provider, validator), or
\* ConversationalEQLService(provider, validator, class_diagram[, conversation_history])
ServiceInit ==
    /\ \E cls \in {"NaturalLanguageToEQLService", "ConversationalEQLService"} :
       \E history \in {<<>>, EarlierHistory} :
          /\ cls = "NaturalLanguageToEQLService" => history = <<>>
          /\ calls = <<CallRecord("__init__", None, NoProvided, None, <<>>, history,
                               [cls |-> cls, conversation_history |-> history,
                                system_prompt |-> IF cls = "ConversationalEQLService"
                                                  THEN build_system_prompt("diagram")
                                                  ELSE <<>>])>>
    /\ EqlIdle
    /\ ClassifyIdle
    /\ DiagramIdle
    /\ ValidatorIdle
    /\ OntologyIdle

\* service.convert(text)
Convert ==
    /\ Len(calls) <= MaxCalls
    /\ \E text \in Texts, provided \in Provided :
       \E e \in IF provided.raised # None THEN {[type |-> None, text |-> None]}
                ELSE compile(provided.result[1].query_code) :
       \E r \in {convert(service, text, provided, e)} :
          calls' = Append(calls, CallRecord("convert", text, provided, r.raised,
                                            r.result, <<>>, r.service))
    /\ UNCHANGED not_nlp_vars

\* service.clear_history()
ClearHistory ==
    /\ Len(calls) <= MaxCalls
    /\ service.cls = "ConversationalEQLService"
    /\ calls' = Append(calls, CallRecord("clear_history", None, NoProvided, None, <<>>,
                                         <<>>, clear_history(service)))
    /\ UNCHANGED not_nlp_vars

ServiceNext ==
    \/ Convert
    \/ ClearHistory

ServiceSpec == ServiceInit /\ [][ServiceNext]_vars

\* ------------------------------------------------------------------ properties of the services

\* the convert calls that returned a result
Returned == {i \in DOMAIN calls : calls[i].op = "convert" /\ calls[i].result # <<>>}

\* C27: every result a service returned is the provider's result with the
\* same query_code; when the validator accepts the code, confidence and
\* error_message are the provider's too; when it rejects it, the confidence
\* is 0.0 and error_message is the validator's message.
C27_ConvertReportsValidation ==
    \A i \in Returned :
        LET generated == calls[i].provided.result[1]
            eql_result == calls[i].result[1]
        IN /\ eql_result.query_code = generated.query_code
           /\ \E e \in compile(generated.query_code) :
                 LET validation_result == validate(generated.query_code, e)
                 IN /\ validation_result.raised = None
                    /\ IF validation_result.is_valid
                       THEN eql_result = generated
                       ELSE /\ eql_result.confidence = 0
                            /\ eql_result.error_message = validation_result.error_message

\* a service has returned a rejected result whose confidence and message
\* differ from the provider's, and an accepted one that carries a message of
\* the provider
C27_Witness ==
    \E i, j \in Returned :
        /\ calls[i].provided.result[1].confidence = 9
        /\ calls[i].provided.result[1].error_message = <<"truncated">>
        /\ calls[i].result[1].confidence = 0
        /\ calls[i].result[1].error_message # <<"truncated">>
        /\ calls[j].result[1].confidence = 7
        /\ calls[j].result[1].error_message = <<"truncated">>

\* the last call that set the history as a whole: the construction or the
\* last clear_history
LastReset ==
    CHOOSE i \in DOMAIN calls :
        /\ calls[i].op \in {"__init__", "clear_history"}
        /\ \A j \in (i + 1)..Len(calls) : calls[j].op = "convert"

\* the convert calls since then in which the provider returned, in call order
AnsweredSince ==
    SelectSeq(SubSeq(calls, LastReset + 1, Len(calls)),
              LAMBDA c : c.provided.raised = None)

\* what each of them had to record: the text, the code and the confidence as
\* the provider returned them
ExchangesSince ==
    Map(AnsweredSince,
        LAMBDA c : Exchange(c.text, c.provided.result[1].query_code,
                            str(c.provided.result[1].confidence)))

\* the statement as it stands: the history is as long as the number of
\* convert calls in which the provider returned since the last clear_history
C28_HistoryCountsAnsweredCalls ==
    service.cls = "ConversationalEQLService" =>
        Len(service.conversation_history) = Len(AnsweredSince)

\* C28: the history of a conversational service is what it held when it was
\* last reset (the history it was constructed with, nothing after a
\* clear_history) followed by one exchange for every later convert call in
\* which the provider returned, in call order, each with the provider's
\* confidence, whatever validation said afterwards; a convert whose provider
\* raised adds nothing; the system prompt stays as it was built.
C28_HistoryRecordsAnsweredCalls ==
    service.cls = "ConversationalEQLService" =>
        /\ service.conversation_history = calls[LastReset].history \o ExchangesSince
        /\ service.system_prompt = build_system_prompt("diagram")

\* a service constructed with an earlier exchange, after a convert whose
\* code was rejected and one whose provider raised: two exchanges, the
\* second with the provider's confidence
C28_Witness ==
    /\ service.cls = "ConversationalEQLService"
    /\ calls[1].history # <<>>
    /\ LastReset = 1
    /\ Len(calls) = 3
    /\ \E i \in 2..3 : calls[i].provided.raised # None
    /\ \E i \in 2..3 : calls[i].result # <<>> /\ calls[i].result[1].confidence = 0
    /\ Len(service.conversation_history) = 2
    /\ service.conversation_history[2].confidence = "0.9"

\* ======================================================================
\* nlp_to_eql/providers.py: the providers
\* ======================================================================

Providers == {"OpenAIEQLProvider", "ClaudeEQLProvider", "OllamaEQLProvider"}

\* generate_eql(natural_query) on provider p: `remote` is how the remote call
\* ends.  [provider, raised]: the provider afterwards and the exception, if
\* any.  OllamaEQLProvider imports requests first; the two other classes
\* import their client package when they are constructed.
generate_eql(p, requests, class_diagram, remote) ==
    IF p.cls = "OllamaEQLProvider" /\ ~requests
    THEN [provider |-> p, raised |-> "ImportError"]
    ELSE [provider |-> [p EXCEPT !.prompt_builder = <<class_diagram>>],
          raised |-> IF remote = "raises" THEN "ConnectionError" ELSE None]

\* dump_system_prompt(file_path) on provider p: `io` is how writing the file
\* ends.  [raised, written]: the exception, if any, and the files written.
dump_system_prompt(p, file_path, io) ==
    IF p.prompt_builder = <<>>
    THEN [raised |-> "ValueError", written |-> <<>>]
    ELSE IF io = "raises" THEN [raised |-> "OSError", written |-> <<>>]
    ELSE [raised |-> None,
          written |-> <<[path |-> file_path,
                         text |-> build_system_prompt(p.prompt_builder[1])]>>]

\* one call on a provider: the exception it raised, the files it wrote, and
\* the provider after it; `requests` is whether the interpreter the provider
\* was constructed in can import the requests package
ProviderCall(op, requests, raised, files, self) ==
    [op |-> op, requests |-> requests, raised |-> raised, written |-> files, self |-> self]

\* the provider as the last call left it
provider == calls[Len(calls)].self

\* how each generate_eql call on the provider ended
generate_calls ==
    Map(SelectSeq(calls, LAMBDA c : c.op = "generate_eql"), LAMBDA c : c.raised)

\* the files written by dump_system_prompt, in order
written == FlatMap(calls, LAMBDA c : c.written)

\* how the last call ended, when it was a dump_system_prompt
dumped ==
    IF calls[Len(calls)].op # "dump_system_prompt" THEN None
    ELSE IF calls[Len(calls)].raised = None THEN "written"
    ELSE calls[Len(calls)].raised

\* a provider as constructed (prompt_builder is None), in an interpreter that
\* has the requests package or not
ProviderInit ==
    /\ \E cls \in Providers, requests \in BOOLEAN :
          calls = <<ProviderCall("__init__", requests, None, <<>>,
                                 [cls |-> cls, prompt_builder |-> <<>>])>>
    /\ EqlIdle
    /\ ClassifyIdle
    /\ DiagramIdle
    /\ ValidatorIdle
    /\ OntologyIdle

\* provider.generate_eql(natural_query)
GenerateEql ==
    /\ Len(calls) <= MaxCalls
    /\ \E remote \in {"returns", "raises"} :
       \E r \in {generate_eql(provider, calls[1].requests, "diagram", remote)} :
          calls' = Append(calls, ProviderCall("generate_eql", calls[1].requests, r.raised,
                                              <<>>, r.provider))
    /\ UNCHANGED not_nlp_vars

\* provider.dump_system_prompt(file_path)
DumpSystemPrompt ==
    /\ Len(calls) <= MaxCalls
    /\ \E file_path \in {"a.md", "b.md"}, io \in {"writes", "raises"} :
       \E r \in {dump_system_prompt(provider, file_path, io)} :
          calls' = Append(calls, ProviderCall("dump_system_prompt", calls[1].requests,
                                              r.raised, r.written, provider))
    /\ UNCHANGED not_nlp_vars

ProviderNext ==
    \/ GenerateEql
    \/ DumpSystemPrompt

ProviderSpec == ProviderInit /\ [][ProviderNext]_vars

\* ------------------------------------------------------------------ properties of the providers

\* C29: on every provider, dump_system_prompt before any generate_eql call
\* raises ValueError and writes nothing; once generate_eql has been entered
\* the prompt builder is set, also when the call failed, and
\* dump_system_prompt no longer raises ValueError.
C29_PromptBuilderIsSetOnceEntered ==
    /\ [](generate_calls # <<>> => provider.prompt_builder # <<>>)
    /\ [][DumpSystemPrompt =>
            IF generate_calls = <<>>
            THEN dumped' = "ValueError" /\ written' = written
            ELSE dumped' # "ValueError"]_vars

\* ------------------------------------------------------------------ relationship cardinalities

\* a property that was read and gave True, or gave False
IsTrue(read) == read.raised = None /\ read.value

IsFalse(read) == read.raised = None /\ ~read.value

\* C30: no field is a one-to-one and a one-to-many relationship at once;
\* a field whose type endpoint is a builtin scalar is neither; a field that
\* is a role taker is a one-to-one relationship that is not optional and was
\* declared without default and without default factory.
C30_CardinalitiesExclude ==
    classified # <<>> =>
        /\ ~(/\ IsTrue(classified[1].is_one_to_one_relationship)
             /\ IsTrue(classified[1].is_one_to_many_relationship))
        /\ IsTrue(classified[1].is_builtin_type) =>
              /\ IsFalse(classified[1].is_one_to_one_relationship)
              /\ IsFalse(classified[1].is_one_to_many_relationship)
        /\ IsTrue(classified[1].is_role_taker) =>
              /\ IsTrue(classified[1].is_one_to_one_relationship)
              /\ ~IsTrue(classified[1].is_one_to_many_relationship)
              /\ ~classified[1].is_optional
              /\ classified[1].field.default = MISSING
              /\ classified[1].field.default_factory = MISSING

\* a field declared `owner: Person` without default is a role taker, one-to-one
C30_Witness ==
    /\ classified # <<>>
    /\ field_type = ClassType("a.Person")
    /\ IsTrue(classified[1].is_role_taker)
    /\ IsTrue(classified[1].is_one_to_one_relationship)
    /\ IsFalse(classified[1].is_one_to_many_relationship)

====
